---------------------------- MODULE Spec2Model ----------------------------
(***************************************************************************)
(* Voice-ordering relay of the Glazed and Confused donut shop.             *)
(*                                                                         *)
(* The module models                                                       *)
(*   - the order aggregate            (src/src/services/order-manager.js)  *)
(*   - the menu lookup                (src/unnamed/part_002)               *)
(*   - the AI channel service         (src/src/services/openai-service.js) *)
(*   - the per-call media stream handler, direct-forward variant           *)
(*                                    (src/unnamed/part_003)               *)
(*   - the batching media stream handler (src/src/routes/media-stream.js)  *)
(*   - the webhook dispatcher         (src/src/services/logger.js)         *)
(*   - the spreadsheet sinks          (src/unnamed/part_000,               *)
(*                                     src/integrations/google-sheets.js)  *)
(*                                                                         *)
(* Amounts are integer cents.  JavaScript null/undefined is NULL.          *)
(* Asynchronous code is cut at its await points: one action runs a handler *)
(* (or the continuation of an await) to its next suspension point.         *)
(***************************************************************************)
EXTENDS Integers, Sequences, FiniteSets

NULL == "null"

\* The field names of the records of the model.  Every record below lists
\* its fields in this order.
Fields ==
  << [addItem |-> 0, address |-> 0, arguments |-> 0, attempt |-> 0,
      attempts |-> 0, audioBuffer |-> 0, audioChunksFromTwilio |-> 0,
      audioChunksReceived |-> 0, audioChunksSent |-> 0, call |-> 0,
      callSid |-> 0, call_id |-> 0, cb |-> 0, client |-> 0, confirmed |-> 0,
      conn |-> 0, customerName |-> 0, customerPhone |-> 0, data |-> 0,
      delay |-> 0, deliveredAtCall |-> 0, deliveryMethod |-> 0, dozen |-> 0,
      error |-> 0, event |-> 0, from |-> 0, fromNumber |-> 0, half |-> 0,
      inFlightAtCall |-> 0, instructions |-> 0, itemTotal |-> 0,
      items |-> 0, itemsSummary |-> 0, key |-> 0, kind |-> 0, large |-> 0,
      last |-> 0, listeners |-> 0, logged |-> 0, loggedOrders |-> 0,
      medium |-> 0, menuItems |-> 0, menuText |-> 0, method |-> 0,
      name |-> 0, ok |-> 0, om |-> 0, openaiService |-> 0, order |-> 0,
      orderData |-> 0, orderManager |-> 0, orders |-> 0, output |-> 0,
      owner |-> 0, parsable |-> 0, payload |-> 0, paymentMethod |-> 0,
      pc |-> 0, phone |-> 0, price |-> 0, priceMap |-> 0, quantity |-> 0,
      ready |-> 0, regular |-> 0, result |-> 0, sends |-> 0, sent |-> 0,
      services |-> 0, sessionUpdates |-> 0, setAddress |-> 0,
      setCustomerName |-> 0, setDeliveryMethod |-> 0,
      setPaymentMethod |-> 0, single |-> 0, sink |-> 0, size |-> 0,
      sizes |-> 0, skipped |-> 0, small |-> 0, specialInstructions |-> 0,
      status |-> 0, stream |-> 0, streamSid |-> 0, subtotal |-> 0,
      success |-> 0, svc |-> 0, tax |-> 0, total |-> 0, type |-> 0,
      words |-> 0, ws |-> 0] >>

(***************************************************************************)
(* Bounds of the model                                                     *)
(***************************************************************************)
\* tool invocations the AI channel emits in one call
MaxToolCalls == 3
\* logOrder / logOrderToGoogleSheets invocations in the dispatcher harness
MaxCalls == 2
\* audio frames from the telephony leg, audio deltas from the AI leg
MaxFrames == 2
\* start events on one telephony connection
MaxStarts == 2
\* stop events on one telephony connection
MaxStops == 1
\* method calls made on one order manager in the order harness
MaxOps == 4

(***************************************************************************)
(* Menu  (src/unnamed/part_002)                                            *)
(***************************************************************************)
VARIABLES
  dynamicMenuItems,   \* the module's variable: the items of the spreadsheet
                      \* menu as setDynamicMenu stored them; << >> while it
                      \* is null (no item is found in either)
  lookup              \* observation: the last call of findMenuItem or
                      \* getPrice made from outside, with what it came to

menuVars == <<dynamicMenuItems, lookup>>

\* fallbackMenu, in declaration order (the order `for ... in` iterates);
\* prices in cents, sizes in the order of the priceMap keys
fallbackMenu ==
  << [name |-> "glazed donut",
      priceMap |-> [dozen |-> 2299, half |-> 1299, single |-> 249],
      sizes |-> <<"single", "half-dozen", "dozen">>,
      words |-> <<"glazed", "donut">>],
     [name |-> "chocolate frosted donut",
      priceMap |-> [dozen |-> 2799, half |-> 1599, single |-> 299],
      sizes |-> <<"single", "half-dozen", "dozen">>,
      words |-> <<"chocolate", "frosted", "donut">>],
     [name |-> "donut holes",
      priceMap |-> [large |-> 899, small |-> 499],
      sizes |-> <<"small", "large">>,
      words |-> <<"donut", "holes">>],
     [name |-> "muffin",
      priceMap |-> [regular |-> 349],
      sizes |-> <<"regular">>,
      words |-> <<"muffin">>],
     [name |-> "coffee",
      priceMap |-> [large |-> 399, medium |-> 329, small |-> 249],
      sizes |-> <<"small", "medium", "large">>,
      words |-> <<"coffee">>] >>

\* the lowercase names fallbackMenu[name] finds although the literal does
\* not declare them: the properties an object inherits from Object.prototype
inheritedNames == {"constructor", "__proto__"}

\* the priceMap key of a size label ('half-dozen' is no TLA+ field name)
sizeKey(size) == IF size = "half-dozen" THEN "half" ELSE size

\* String.prototype.toLowerCase() on the names the model uses
toLowerCase(s) ==
  CASE s = "GLAZED DONUT"     -> "glazed donut"
    [] s = "Glazed Donut Box" -> "glazed donut box"
    [] s = "Maple Bar"        -> "maple bar"
    [] s = "Coffee"           -> "coffee"
    [] s = "Tap Water"        -> "tap water"
    [] OTHER                  -> s

\* String.prototype.toLowerCase().trim() on the names the model uses
lowerTrim(s) ==
  CASE s = " glazed donut " -> "glazed donut"
    [] s = "   "            -> ""
    [] OTHER                -> toLowerCase(s)

\* String.prototype.split(/\s+/) on the (lowercased, trimmed) names the model uses
splitWords(s) ==
  CASE s = "glazed donut"            -> <<"glazed", "donut">>
    [] s = "glazed donut box"        -> <<"glazed", "donut", "box">>
    [] s = "chocolate frosted"       -> <<"chocolate", "frosted">>
    [] s = "chocolate frosted donut" -> <<"chocolate", "frosted", "donut">>
    [] s = "donut holes"             -> <<"donut", "holes">>
    [] s = "holes donut"             -> <<"holes", "donut">>
    [] s = "maple bar"               -> <<"maple", "bar">>
    [] s = "tap water"               -> <<"tap", "water">>
    [] OTHER                         -> <<s>>

\* a.includes(b) on single words: b is a substring of a
includes(a, b) ==
  \/ a = b
  \/ b = ""
  \/ <<a, b>> \in { <<"donuts", "donut">>, <<"chocolate", "choc">> }

\* the fuzzy test of findMenuItem: every query word is contained in, or
\* contains, some word of the menu name
fuzzyMatch(words, menuWords) ==
  \A i \in 1..Len(words) :
     \E j \in 1..Len(menuWords) :
        includes(menuWords[j], words[i]) \/ includes(words[i], menuWords[j])

\* the smallest element of a set of indexes, 0 if it is empty: the first
\* hit of a loop over the menu in declaration order
firstIndex(hits) ==
  IF hits = {} THEN 0 ELSE CHOOSE i \in hits : \A j \in hits : i <= j

\* what findMenuItem returns: null, or { name, data }; `kind` tells where
\* the data came from ("dynamic", "fallback", or "inherited" for a property
\* of Object.prototype, whose data has no priceMap)
notFound == [data |-> [priceMap |-> << >>, sizes |-> << >>],
             kind |-> "null", name |-> NULL]

\* { name: it.name, data: { sizes: ['regular'], priceMap: { regular: it.price } } }
dynamicItem(it) ==
  [data |-> [priceMap |-> [regular |-> it.price], sizes |-> <<"regular">>],
   kind |-> "dynamic", name |-> it.name]

\* { name: key, data: fallbackMenu[key] }
fallbackItem(i) ==
  [data |-> [priceMap |-> fallbackMenu[i].priceMap, sizes |-> fallbackMenu[i].sizes],
   kind |-> "fallback", name |-> fallbackMenu[i].name]

\* a findMenuItem that looks at the hardcoded menu only
findMenuItemFallbackOnly(menu, itemName) ==
  IF itemName = NULL \/ itemName = "" THEN notFound
  ELSE LET lowerName == lowerTrim(itemName)
           exact == { i \in 1..Len(fallbackMenu) : fallbackMenu[i].name = lowerName }
           fuzzy == { i \in 1..Len(fallbackMenu) :
                        fuzzyMatch(splitWords(lowerName), fallbackMenu[i].words) }
       IN  IF exact # {} THEN fallbackItem(firstIndex(exact))
           ELSE IF fuzzy # {} THEN fallbackItem(firstIndex(fuzzy))
           ELSE notFound

\* findMenuItem(itemName) when the module's dynamicMenuItems is `menu`: the
\* dynamic menu first (exact name, then first fuzzy match), then the
\* hardcoded one (property lookup, exact name, first fuzzy match)
findMenuItemIn(menu, itemName) ==
  IF itemName = NULL \/ itemName = "" THEN notFound
  ELSE LET lowerName == lowerTrim(itemName)
           words == splitWords(lowerName)
           dynamicExact ==
             { i \in 1..Len(menu) : toLowerCase(menu[i].name) = lowerName }
           dynamicFuzzy ==
             { i \in 1..Len(menu) :
                 fuzzyMatch(words, splitWords(toLowerCase(menu[i].name))) }
           exact == { i \in 1..Len(fallbackMenu) : fallbackMenu[i].name = lowerName }
           fuzzy == { i \in 1..Len(fallbackMenu) :
                        fuzzyMatch(words, fallbackMenu[i].words) }
       IN  IF dynamicExact # {} THEN dynamicItem(menu[firstIndex(dynamicExact)])
           ELSE IF dynamicFuzzy # {} THEN dynamicItem(menu[firstIndex(dynamicFuzzy)])
           ELSE IF exact # {} THEN fallbackItem(firstIndex(exact))
           ELSE IF lowerName \in inheritedNames
           THEN [notFound EXCEPT !.kind = "inherited", !.name = lowerName]
           ELSE IF fuzzy # {} THEN fallbackItem(firstIndex(fuzzy))
           ELSE notFound

\* findMenuItem(itemName)
findMenuItem(itemName) == findMenuItemIn(dynamicMenuItems, itemName)

\* a value that is no number: the property a price table inherits from
\* Object.prototype (a function, an object), and NaN, which arithmetic on
\* it gives; no amount of the model comes near this number
NotANumber == -1000000000

\* a * b and a + b of JavaScript numbers
times(a, b) == IF a = NotANumber \/ b = NotANumber THEN NotANumber ELSE a * b
plus(a, b) == IF a = NotANumber \/ b = NotANumber THEN NotANumber ELSE a + b

\* what getPrice comes to: a price (ok), null (neither ok nor error), or an
\* exception (error)
priceNull == [error |-> NULL, ok |-> FALSE, price |-> 0]
priceIs(p) == [error |-> NULL, ok |-> TRUE, price |-> p]

\* getPrice from the result of its findMenuItem call on: pm[size] if it is
\* truthy (a property pm inherits is), else the price under the first key
\* of pm; reading pm[size] of a data without priceMap is a TypeError
getPriceOf(found, size) ==
  IF found.kind = "null" THEN priceNull
  ELSE IF found.kind = "inherited" THEN [priceNull EXCEPT !.error = "TypeError"]
  ELSE LET pm == found.data.priceMap
       IN  IF size \in inheritedNames THEN priceIs(NotANumber)
           ELSE IF sizeKey(size) \in DOMAIN pm /\ pm[sizeKey(size)] # 0
           THEN priceIs(pm[sizeKey(size)])
           ELSE IF Len(found.data.sizes) > 0
           THEN priceIs(pm[sizeKey(found.data.sizes[1])])
           ELSE priceNull

\* getPrice(itemName, size)
getPrice(itemName, size) == getPriceOf(findMenuItem(itemName), size)

\* no call of findMenuItem or getPrice has been made from outside
NoLookup ==
  [arguments |-> [name |-> NULL, size |-> NULL], name |-> NULL,
   price |-> priceNull, result |-> notFound]

(***************************************************************************)
(* Order aggregate  (src/src/services/order-manager.js)                    *)
(***************************************************************************)
\* createEmptyOrder (the timestamp is left out)
createEmptyOrder(streamSid, callSid, fromNumber) ==
  [ address |-> NULL, callSid |-> callSid, confirmed |-> FALSE,
    customerName |-> NULL, customerPhone |-> fromNumber,
    deliveryMethod |-> NULL, from |-> fromNumber, items |-> << >>,
    logged |-> FALSE, paymentMethod |-> NULL, streamSid |-> streamSid,
    subtotal |-> 0, tax |-> 0, total |-> 0 ]

\* the outcome of an order operation: it returns the order or throws
returns(o) == [error |-> NULL, ok |-> TRUE, order |-> o]
throws(o, msg) == [error |-> msg, ok |-> FALSE, order |-> o]

\* (item.quantity || 1): a quantity of 0 counts as 1
quantityOrOne(quantity) == IF quantity = 0 THEN 1 ELSE quantity

\* (size || 'single'): a missing or empty size is 'single'
sizeOrSingle(size) == IF size = NULL \/ size = "" THEN "single" ELSE size

\* sum of (price || 0) * (quantity || 1) over the first n items
RECURSIVE itemsSum(_, _)
itemsSum(items, n) ==
  IF n = 0 THEN 0
  ELSE plus(itemsSum(items, n - 1),
            times(items[n].price, quantityOrOne(items[n].quantity)))

\* Number.prototype.toFixed(2) of x/100 cents: rounded to the nearest cent
\* (no amount of the model lies half way between two cents)
toFixed2(x) == IF x = NotANumber THEN NotANumber ELSE (x + 50) \div 100

\* recalculateTotals(taxRate = 0.08): tax and total are both rounded from
\* the unrounded subtotal
recalculateTotals(o) ==
  LET subtotal == itemsSum(o.items, Len(o.items))
  IN  [o EXCEPT !.subtotal = subtotal,
                !.tax = toFixed2(times(subtotal, 8)),
                !.total = toFixed2(times(subtotal, 108))]

\* an addItem that appends a line whatever the order holds
addItemAppends(o, itemName, size, quantity) ==
  LET found == findMenuItem(itemName)
      price == getPrice(itemName, size)
  IN  IF found.kind = "null" THEN throws(o, "Menu item not found")
      ELSE IF price.error # NULL THEN throws(o, price.error)
      ELSE IF ~price.ok THEN throws(o, "Price not found")
      ELSE returns(recalculateTotals(
             [o EXCEPT !.items = Append(@,
                [name |-> found.name, price |-> price.price,
                 quantity |-> quantity, size |-> sizeOrSingle(size),
                 specialInstructions |-> NULL])]))

\* addItem(itemName, size, quantity); an exception of getPrice leaves it
\* as it is
addItem(o, itemName, size, quantity) ==
  LET found == findMenuItem(itemName)
      price == getPrice(itemName, size)
      existingIndex ==
        firstIndex({ i \in 1..Len(o.items) :
                       /\ toLowerCase(o.items[i].name) = toLowerCase(found.name)
                       /\ sizeOrSingle(o.items[i].size) = sizeOrSingle(size) })
  IN  IF found.kind = "null" THEN throws(o, "Menu item not found")
      ELSE IF price.error # NULL THEN throws(o, price.error)
      ELSE IF ~price.ok THEN throws(o, "Price not found")
      ELSE IF existingIndex > 0
      THEN returns(recalculateTotals(
             [o EXCEPT !.items[existingIndex].quantity = @ + quantity]))
      ELSE returns(recalculateTotals(
             [o EXCEPT !.items = Append(@,
                [name |-> found.name, price |-> price.price,
                 quantity |-> quantity, size |-> sizeOrSingle(size),
                 specialInstructions |-> NULL])]))

\* setDeliveryMethod(method)
setDeliveryMethod(o, method) ==
  IF method # "pickup" /\ method # "delivery"
  THEN throws(o, "Invalid delivery method")
  ELSE returns([o EXCEPT !.deliveryMethod = method])

\* String.prototype.trim() on the texts the model uses
trim(s) ==
  CASE s = "   "          -> ""
    [] s = " Jane Smith " -> "Jane Smith"
    [] s = " 1 Main St "  -> "1 Main St"
    [] OTHER              -> s

\* a setAddress that also switches the order to delivery
setAddressAndMethod(o, address) ==
  IF address = NULL \/ address = "" \/ trim(address) = ""
  THEN throws(o, "Address cannot be empty")
  ELSE returns([o EXCEPT !.address = trim(address),
                         !.deliveryMethod = "delivery"])

\* setAddress(address)
setAddress(o, address) ==
  IF address = NULL \/ address = "" \/ trim(address) = ""
  THEN throws(o, "Address cannot be empty")
  ELSE returns([o EXCEPT !.address = trim(address)])

\* a setCustomerName that stores every name, a blank one too
setCustomerNameUnchecked(o, name) ==
  returns([o EXCEPT !.customerName = IF name = NULL THEN "" ELSE trim(name)])

\* a setCustomerName that stores the name before it tests it
setCustomerNameStoresFirst(o, name) ==
  IF name = NULL \/ name = "" \/ trim(name) = ""
  THEN throws([o EXCEPT !.customerName = trim(name)],
              "Customer name cannot be empty")
  ELSE returns([o EXCEPT !.customerName = trim(name)])

\* setCustomerName(name)
setCustomerName(o, name) ==
  IF name = NULL \/ name = "" \/ trim(name) = ""
  THEN throws(o, "Customer name cannot be empty")
  ELSE returns([o EXCEPT !.customerName = trim(name)])

\* setCustomerPhone(phone)
setCustomerPhone(o, phone) ==
  returns([o EXCEPT !.customerPhone =
             IF phone = NULL \/ phone = "" THEN o.from ELSE phone])

\* method.toLowerCase().includes(m) on the payment texts the model uses
lowerIncludes(method, m) ==
  <<method, m>> \in { <<"cash", "cash">>, <<"Credit Card", "card">>,
                      <<"Credit Card", "credit">>, <<"debit", "debit">> }

\* setPaymentMethod(method): a missing method is a TypeError of toLowerCase
setPaymentMethod(o, method) ==
  IF method = NULL THEN throws(o, "TypeError")
  ELSE IF ~ \E m \in {"cash", "card", "credit", "debit"} : lowerIncludes(method, m)
  THEN throws(o, "Invalid payment method")
  ELSE returns([o EXCEPT !.paymentMethod =
                  IF lowerIncludes(method, "cash") THEN "cash" ELSE "card"])

\* a confirm that checks nothing
confirmUnchecked(o) == returns([o EXCEPT !.confirmed = TRUE])

\* confirm()
confirm(o) ==
  IF Len(o.items) = 0 THEN throws(o, "Cannot confirm order with no items")
  ELSE IF o.customerName = NULL \/ o.customerName = ""
  THEN throws(o, "Cannot confirm order without customer name")
  ELSE returns([o EXCEPT !.confirmed = TRUE])

\* markAsLogged()
\* a marking that flips the flag instead of setting it
markAsLoggedToggles(o) == [o EXCEPT !.logged = ~@]

markAsLogged(o) == [o EXCEPT !.logged = TRUE]

\* isReadyToLog()
\* a readiness test that forgets the logged flag
isReadyToLogIgnoringLogged(o) ==
  /\ o.confirmed
  /\ Len(o.items) > 0
  /\ o.customerName # NULL /\ o.customerName # ""

isReadyToLog(o) ==
  /\ o.confirmed
  /\ Len(o.items) > 0
  /\ o.customerName # NULL /\ o.customerName # ""
  /\ ~o.logged

\* getSummary(): the text is kept as the list of (quantity, size, name)
RECURSIVE summaryOf(_, _)
summaryOf(items, n) ==
  IF n = 0 THEN << >>
  ELSE Append(summaryOf(items, n - 1),
              <<items[n].quantity, items[n].size, items[n].name>>)

getSummary(o) == summaryOf(o.items, Len(o.items))

\* the items of getOrderForLogging(), each with its itemTotal
RECURSIVE itemsForLogging(_, _)
itemsForLogging(items, n) ==
  IF n = 0 THEN << >>
  ELSE Append(itemsForLogging(items, n - 1),
              [itemTotal |-> times(items[n].price, quantityOrOne(items[n].quantity)),
               name |-> items[n].name, price |-> items[n].price,
               quantity |-> items[n].quantity, size |-> items[n].size,
               specialInstructions |-> items[n].specialInstructions])

\* getOrderForLogging(): the snapshot handed to the sinks
getOrderForLogging(o) ==
  [ address |-> o.address, callSid |-> o.callSid,
    customerName |-> o.customerName, customerPhone |-> o.customerPhone,
    deliveryMethod |-> o.deliveryMethod, from |-> o.from,
    items |-> itemsForLogging(o.items, Len(o.items)),
    itemsSummary |-> getSummary(o),
    paymentMethod |-> o.paymentMethod,
    status |-> IF o.confirmed THEN "completed" ELSE "pending",
    streamSid |-> o.streamSid,
    subtotal |-> o.subtotal, tax |-> o.tax, total |-> o.total ]

(***************************************************************************)
(* State                                                                   *)
(***************************************************************************)
VARIABLES
  \* Logger (src/src/services/logger.js)
  loggedOrders,   \* this.loggedOrders: the keys recorded as delivered
  calls,          \* the deliver calls made so far, in invocation order, each
                  \* with the position it has reached and its result
  delivered,      \* history: the keys for which a webhook send succeeded
  \* one telephony connection (the closure of wss.on('connection'))
  ws,             \* the telephony socket: "OPEN" or "CLOSED"
  stream,         \* history: "connected", "started" (since the last start
                  \* event), "ended" (since the last end of call)
  streamSid, callSid,
  orders,         \* the OrderManager objects created so far (their orders)
  orderManager,   \* the closure variable: 0 (null) or an index of `orders`
  services,       \* the OpenAIService objects created so far
  openaiService,  \* the closure variable: 0 (null) or an index of `services`
  audioChunksFromTwilio,
  audioBuffer, audioBufferTimer,   \* batching handler only
  sheetsLogger,   \* whether a spreadsheet sink was passed to setupMediaStream
  \* observation
  aiSent,         \* the messages the last step sent on the AI socket
  twilioSent,     \* the messages the last step sent on the telephony socket
  toolCalls,      \* number of tool invocations received
  framesIn,       \* number of telephony audio frames received
  deltasIn,       \* number of AI audio deltas received
  endCalls,       \* number of end-of-call triggers handled
  handoffs,       \* the snapshots handed to each sink at end of call
  ops,            \* history: the OrderManager methods called directly, in
                  \* order, each with its arguments and whether it returned
  peer            \* the closure variables of the other telephony connection
                  \* the server holds (the variables above being those of
                  \* the connection whose events are being handled)

loggerVars == <<loggedOrders, calls, delivered>>
sessionVars == <<ws, stream, streamSid, callSid, orders, orderManager,
                 services, openaiService, audioChunksFromTwilio, audioBuffer,
                 audioBufferTimer, sheetsLogger>>
observationVars == <<aiSent, twilioSent, toolCalls, framesIn, deltasIn,
                     endCalls, handoffs, ops>>
vars == <<loggerVars, sessionVars, observationVars, peer, menuVars>>

(***************************************************************************)
(* Webhook dispatcher  (src/src/services/logger.js)                        *)
(***************************************************************************)
\* new Logger(url, 3, 1000)
maxRetries == 3
retryDelay == 1000

\* what one HTTP request can come to: a response with a status code, the
\* request's timeout, or a transport error (connection reset)
Outcomes ==
  { [kind |-> "response", status |-> 200],
    [kind |-> "response", status |-> 400],
    [kind |-> "response", status |-> 503],
    [kind |-> "timeout",  status |-> 0],
    [kind |-> "error",    status |-> 0] }

\* _sendRequest: resolves {success} on a response, rejects on error or timeout
sendRequestSucceeds(outcome) ==
  outcome.kind = "response" /\ outcome.status >= 200 /\ outcome.status < 300

\* the error message of a failed attempt
errorMessage(outcome) ==
  CASE outcome.kind = "timeout" -> "Request timeout"
    [] outcome.kind = "error"   -> "ECONNRESET"
    [] OTHER                    -> "HTTP error"

\* Math.pow(2, n) for the small n the retry loops use
RECURSIVE pow2(_)
pow2(n) == IF n <= 0 THEN 1 ELSE 2 * pow2(n - 1)

NoResult == [attempt |-> 0, attempts |-> 0, error |-> NULL,
             skipped |-> FALSE, success |-> FALSE]

\* no request of the call has settled yet
NoOutcome == [kind |-> "none", status |-> 0]

\* const orderId = orderData.callSid || orderData.streamSid
orderId(orderData) ==
  IF orderData.callSid # NULL /\ orderData.callSid # ""
  THEN orderData.callSid ELSE orderData.streamSid

\* a dispatcher that forgets what it delivered
alreadyLoggedNever(key) == FALSE

\* the idempotency test at the head of logOrder
alreadyLogged(key) == key \in loggedOrders

\* a logOrder that has run all its attempts when it returns
logOrderBeginSettled(orderData) ==
  [attempt |-> maxRetries, delay |-> 0, pc |-> "done",
   result |-> [NoResult EXCEPT !.attempts = maxRetries, !.error = "HTTP error"],
   sends |-> maxRetries]

\* logOrder from its call to its first await: either the skip, or the
\* first request is on the wire
logOrderBegin(orderData) ==
  IF alreadyLogged(orderId(orderData))
  THEN [attempt |-> 0, delay |-> 0, pc |-> "done",
        result |-> [NoResult EXCEPT !.success = TRUE, !.skipped = TRUE],
        sends |-> 0]
  ELSE [attempt |-> 1, delay |-> 0, pc |-> "request", result |-> NoResult,
        sends |-> 1]

\* a retry loop that runs one attempt too many (attempt <= maxRetries)
logOrderSettleOneMore(c, outcome) ==
  IF sendRequestSucceeds(outcome)
  THEN [call |-> [c EXCEPT !.pc = "done",
                           !.result = [NoResult EXCEPT !.success = TRUE,
                                                       !.attempt = c.attempt]],
        loggedOrders |-> loggedOrders \cup {c.key}]
  ELSE IF c.attempt <= maxRetries
  THEN [call |-> [c EXCEPT !.pc = "sleep",
                           !.delay = retryDelay * pow2(c.attempt - 1)],
        loggedOrders |-> loggedOrders]
  ELSE [call |-> [c EXCEPT !.pc = "done",
                           !.result = [NoResult EXCEPT !.attempts = maxRetries,
                                          !.error = errorMessage(outcome)]],
        loggedOrders |-> loggedOrders]

\* a dispatcher that records the key whenever the call ends
logOrderSettleRecordsFailure(c, outcome) ==
  IF sendRequestSucceeds(outcome)
  THEN [call |-> [c EXCEPT !.pc = "done",
                           !.result = [NoResult EXCEPT !.success = TRUE,
                                                       !.attempt = c.attempt]],
        loggedOrders |-> loggedOrders \cup {c.key}]
  ELSE IF c.attempt < maxRetries
  THEN [call |-> [c EXCEPT !.pc = "sleep",
                           !.delay = retryDelay * pow2(c.attempt - 1)],
        loggedOrders |-> loggedOrders]
  ELSE [call |-> [c EXCEPT !.pc = "done",
                           !.result = [NoResult EXCEPT !.attempts = maxRetries,
                                          !.error = errorMessage(outcome)]],
        loggedOrders |-> loggedOrders \cup {c.key}]

\* a retry loop without its catch: a rejected request rejects the call
logOrderSettleRethrows(c, outcome) ==
  IF sendRequestSucceeds(outcome)
  THEN [call |-> [c EXCEPT !.pc = "done",
                           !.result = [NoResult EXCEPT !.success = TRUE,
                                                       !.attempt = c.attempt]],
        loggedOrders |-> loggedOrders \cup {c.key}]
  ELSE IF outcome.kind # "response"
  THEN [call |-> [c EXCEPT !.pc = "rejected"], loggedOrders |-> loggedOrders]
  ELSE IF c.attempt < maxRetries
  THEN [call |-> [c EXCEPT !.pc = "sleep",
                           !.delay = retryDelay * pow2(c.attempt - 1)],
        loggedOrders |-> loggedOrders]
  ELSE [call |-> [c EXCEPT !.pc = "done",
                           !.result = [NoResult EXCEPT !.attempts = maxRetries,
                                          !.error = errorMessage(outcome)]],
        loggedOrders |-> loggedOrders]

\* logOrder resumed by the settling of _sendRequest: the call record and
\* the delivered-key set it leaves
logOrderSettle(c, outcome) ==
  IF sendRequestSucceeds(outcome)
  THEN [call |-> [c EXCEPT !.pc = "done",
                           !.result = [NoResult EXCEPT !.success = TRUE,
                                                       !.attempt = c.attempt]],
        loggedOrders |-> loggedOrders \cup {c.key}]
  ELSE IF c.attempt < maxRetries
  THEN [call |-> [c EXCEPT !.pc = "sleep",
                           !.delay = retryDelay * pow2(c.attempt - 1)],
        loggedOrders |-> loggedOrders]
  ELSE [call |-> [c EXCEPT !.pc = "done",
                           !.result = [NoResult EXCEPT !.attempts = maxRetries,
                                          !.error = errorMessage(outcome)]],
        loggedOrders |-> loggedOrders]

\* logOrder resumed by the end of _sleep: the next attempt's request
logOrderRetry(c) ==
  [c EXCEPT !.pc = "request", !.attempt = @ + 1, !.sends = @ + 1, !.delay = 0]

\* a deliver call as the model keeps it
newCall(cs, sink, owner, orderData, begun) ==
  [ attempt |-> begun.attempt,
    \* the caller's .then/.catch: "none", "pending", "ran" or "threw"; for
    \* a call that is over when it returns, the handler runs as soon as the
    \* calling event handler has returned, on a result without success or
    \* (webhook) in a handler that only logs
    cb |-> IF owner = "harness" THEN "none"
           ELSE IF begun.pc = "done" THEN "ran" ELSE "pending",
    delay |-> begun.delay,
    \* history: how the key stood when the call was made
    deliveredAtCall |-> sink = "webhook" /\ orderId(orderData) \in delivered,
    inFlightAtCall |-> \E i \in 1..Len(cs) :
                          /\ cs[i].sink = sink
                          /\ cs[i].key = orderId(orderData)
                          /\ cs[i].pc # "done",
    key |-> orderId(orderData),
    \* history: what the call's last settled request came to
    last |-> NoOutcome,
    orderData |-> orderData, owner |-> owner,
    pc |-> begun.pc, result |-> begun.result, sends |-> begun.sends,
    sink |-> sink ]

\* logger.logOrder(orderData): the calls made so far, with this one added
logOrder(cs, orderData, owner) ==
  Append(cs, newCall(cs, "webhook", owner, orderData, logOrderBegin(orderData)))

\* the .then of logger.logOrder(orderData). A promise's handlers run in the
\* microtask queue, before the next event is handled, so the handler runs in
\* the step that ends the call. In _handleCallEnd it only logs; in the
\* batching handler it calls orderManager.markAsLogged() on success, on what
\* the closure variable holds by then.
thenLogOrder(c) ==
  IF c.pc = "done" /\ c.cb = "pending"
  THEN IF c.owner = "legacy" /\ c.result.success
       THEN IF orderManager # 0
            THEN [cb |-> "ran",
                  orders |-> [orders EXCEPT ![orderManager] = markAsLogged(@)]]
            ELSE [cb |-> "threw", orders |-> orders]
       ELSE [cb |-> "ran", orders |-> orders]
  ELSE [cb |-> c.cb, orders |-> orders]

\* the request of webhook call i settles
SendRequestSettles(i, outcome) ==
  /\ calls[i].sink = "webhook"
  /\ calls[i].pc = "request"
  /\ LET after == logOrderSettle(calls[i], outcome)
         then  == thenLogOrder(after.call)
     IN  /\ calls' = [calls EXCEPT ![i] = [after.call EXCEPT !.last = outcome,
                                                             !.cb = then.cb]]
         /\ loggedOrders' = after.loggedOrders
         /\ orders' = then.orders
  /\ delivered' = IF sendRequestSucceeds(outcome)
                  THEN delivered \cup {calls[i].key} ELSE delivered
  /\ aiSent' = << >> /\ twilioSent' = << >>
  /\ UNCHANGED <<ws, stream, streamSid, callSid, orderManager, services,
                 openaiService, audioChunksFromTwilio, audioBuffer,
                 audioBufferTimer, sheetsLogger,
                 toolCalls, framesIn, deltasIn, endCalls, handoffs, ops, peer, menuVars>>

\* the backoff of webhook call i ends
SleepElapses(i) ==
  /\ calls[i].sink = "webhook"
  /\ calls[i].pc = "sleep"
  /\ calls' = [calls EXCEPT ![i] = logOrderRetry(calls[i])]
  /\ aiSent' = << >> /\ twilioSent' = << >>
  /\ UNCHANGED <<loggedOrders, delivered, sessionVars,
                 toolCalls, framesIn, deltasIn, endCalls, handoffs, ops, peer, menuVars>>

(***************************************************************************)
(* Spreadsheet sinks                                                       *)
(*   logOrderToGoogleSheets  (src/integrations/google-sheets.js)           *)
(*   logOrderToCallLog       (src/unnamed/part_000)                        *)
(* Both are modelled with the sheets client initialised and a sheet id set. *)
(***************************************************************************)
\* const maxRetries = 3 of logOrderToGoogleSheets
sheetsMaxRetries == 3

\* the error the sheets client throws for an outcome: a response carries its
\* status as error.code, a timeout and a reset carry ETIMEDOUT / ECONNRESET
\* in error.message
isRetryable(outcome) ==
  \/ outcome.kind = "response" /\ outcome.status \in {502, 503, 429}
  \/ outcome.kind \in {"timeout", "error"}

\* Math.min(1000 * Math.pow(2, attempt - 1), 5000)
sheetsDelay(attempt) ==
  IF 1000 * pow2(attempt - 1) < 5000 THEN 1000 * pow2(attempt - 1) ELSE 5000

\* either sink from its call to its first await: an order without items is
\* refused without a request, else the append is on the wire
sheetsBegin(orderData) ==
  IF Len(orderData.items) = 0
  THEN [attempt |-> 1, delay |-> 0, pc |-> "done", result |-> NoResult, sends |-> 0]
  ELSE [attempt |-> 1, delay |-> 0, pc |-> "request", result |-> NoResult, sends |-> 1]

\* logOrderToGoogleSheets resumed by the settling of values.append
sheetsSettle(c, outcome) ==
  IF sendRequestSucceeds(outcome)
  THEN [c EXCEPT !.pc = "done", !.result = [NoResult EXCEPT !.success = TRUE]]
  ELSE IF isRetryable(outcome) /\ c.attempt < sheetsMaxRetries
  THEN [c EXCEPT !.pc = "sleep", !.delay = sheetsDelay(c.attempt)]
  ELSE [c EXCEPT !.pc = "done", !.result = NoResult]

\* logOrderToCallLog resumed by the settling of values.append: one attempt
callLogSettle(c, outcome) ==
  IF sendRequestSucceeds(outcome)
  THEN [c EXCEPT !.pc = "done", !.result = [NoResult EXCEPT !.success = TRUE]]
  ELSE [c EXCEPT !.pc = "done", !.result = NoResult]

\* logOrderToGoogleSheets(order)
logOrderToGoogleSheets(cs, orderData, owner) ==
  Append(cs, newCall(cs, "sheets", owner, orderData, sheetsBegin(orderData)))

\* logOrderToCallLog(order)
logOrderToCallLog(cs, orderData, owner) ==
  Append(cs, newCall(cs, "calllog", owner, orderData, sheetsBegin(orderData)))

\* the .then of sheetsLogger(orderData) in _handleCallEnd, run in the step
\* that ends the call: on success it calls orderManager.markAsLogged() on
\* what the closure variable holds by then; a null there throws a
\* TypeError, which the .catch logs
thenSheetsLogger(c) ==
  IF c.pc = "done" /\ c.cb = "pending"
  THEN IF c.result.success
       THEN IF orderManager # 0
            THEN [cb |-> "ran",
                  orders |-> [orders EXCEPT ![orderManager] = markAsLogged(@)]]
            ELSE [cb |-> "threw", orders |-> orders]
       ELSE [cb |-> "ran", orders |-> orders]
  ELSE [cb |-> c.cb, orders |-> orders]

\* the append of spreadsheet call i settles
AppendSettles(i, outcome) ==
  /\ calls[i].sink \in {"sheets", "calllog"}
  /\ calls[i].pc = "request"
  /\ LET after == IF calls[i].sink = "sheets"
                  THEN sheetsSettle(calls[i], outcome)
                  ELSE callLogSettle(calls[i], outcome)
         then  == thenSheetsLogger(after)
     IN  /\ calls' = [calls EXCEPT ![i] = [after EXCEPT !.last = outcome,
                                                        !.cb = then.cb]]
         /\ orders' = then.orders
  /\ aiSent' = << >> /\ twilioSent' = << >>
  /\ UNCHANGED <<loggedOrders, delivered, ws, stream, streamSid, callSid,
                 orderManager, services, openaiService, audioChunksFromTwilio,
                 audioBuffer, audioBufferTimer, sheetsLogger,
                 toolCalls, framesIn, deltasIn, endCalls, handoffs, ops, peer, menuVars>>

\* the backoff of spreadsheet call i ends: the loop's next attempt
BackoffElapses(i) ==
  /\ calls[i].sink = "sheets"
  /\ calls[i].pc = "sleep"
  /\ calls' = [calls EXCEPT ![i] = [@ EXCEPT !.pc = "request", !.attempt = @ + 1,
                                             !.sends = @ + 1, !.delay = 0]]
  /\ aiSent' = << >> /\ twilioSent' = << >>
  /\ UNCHANGED <<loggedOrders, delivered, sessionVars,
                 toolCalls, framesIn, deltasIn, endCalls, handoffs, ops, peer, menuVars>>

(***************************************************************************)
(* Initial state: a telephony connection has just been accepted            *)
(***************************************************************************)
\* what the OpenAIService constructor leaves; conn is the readyState of
\* the socket made by connect(), orderManager the index of the order manager
\* the service was given
NoService == [audioChunksReceived |-> 0, audioChunksSent |-> 0,
              client |-> NULL, conn |-> "NONE", listeners |-> FALSE,
              orderManager |-> 0, ready |-> FALSE,
              \* history: the session.update messages sent on its socket
              sessionUpdates |-> 0]

\* the closure variables of a connection that was just accepted
NoConnection ==
  [audioChunksFromTwilio |-> 0, callSid |-> NULL, openaiService |-> 0,
   orderManager |-> 0, stream |-> "connected", streamSid |-> NULL,
   ws |-> "OPEN"]

Init ==
  /\ loggedOrders = {}
  /\ calls = << >>
  /\ delivered = {}
  /\ ws = "OPEN"
  /\ stream = "connected"
  /\ streamSid = NULL /\ callSid = NULL
  /\ orders = << >> /\ orderManager = 0
  /\ services = << >> /\ openaiService = 0
  /\ audioChunksFromTwilio = 0
  /\ audioBuffer = << >> /\ audioBufferTimer = FALSE
  /\ sheetsLogger \in BOOLEAN
  /\ aiSent = << >> /\ twilioSent = << >>
  /\ toolCalls = 0 /\ framesIn = 0 /\ deltasIn = 0 /\ endCalls = 0
  /\ handoffs = [sink \in {"webhook", "calllog"} |-> << >>]
  /\ ops = << >>
  /\ peer = NoConnection
  /\ dynamicMenuItems = << >> /\ lookup = NoLookup

(***************************************************************************)
(* AI channel service  (src/src/services/openai-service.js)                *)
(***************************************************************************)
\* the arguments object of a tool invocation; a missing property is NULL
\* (0 for the quantity)
NoArgs == [address |-> NULL, method |-> NULL, name |-> NULL, phone |-> NULL,
           quantity |-> 0, size |-> NULL]

\* the tool invocations the AI channel emits: the seven tools, a tool the
\* service does not know, and arguments that are no JSON
ToolInputs ==
  { [arguments |-> [NoArgs EXCEPT !.name = "glazed donut", !.size = "dozen"],
     name |-> "add_item_to_order", parsable |-> TRUE],
    [arguments |-> [NoArgs EXCEPT !.name = "pizza"],
     name |-> "add_item_to_order", parsable |-> TRUE],
    [arguments |-> NoArgs, name |-> "add_item_to_order", parsable |-> FALSE],
    [arguments |-> [NoArgs EXCEPT !.name = "Jane Smith"],
     name |-> "set_customer_name", parsable |-> TRUE],
    [arguments |-> NoArgs, name |-> "set_customer_name", parsable |-> TRUE],
    [arguments |-> [NoArgs EXCEPT !.method = "delivery"],
     name |-> "set_delivery_method", parsable |-> TRUE],
    [arguments |-> [NoArgs EXCEPT !.address = " 1 Main St "],
     name |-> "set_address", parsable |-> TRUE],
    [arguments |-> [NoArgs EXCEPT !.phone = "+15559870000"],
     name |-> "set_customer_phone", parsable |-> TRUE],
    [arguments |-> NoArgs, name |-> "set_payment_method", parsable |-> TRUE],
    [arguments |-> [NoArgs EXCEPT !.method = "Credit Card"],
     name |-> "set_payment_method", parsable |-> TRUE],
    [arguments |-> NoArgs, name |-> "confirm_order", parsable |-> TRUE],
    [arguments |-> NoArgs, name |-> "cancel_order", parsable |-> TRUE] }

KnownTools == {"add_item_to_order", "set_delivery_method", "set_address",
               "set_customer_name", "set_customer_phone",
               "set_payment_method", "confirm_order"}

\* the switch of _handleToolCall: the order operation of a known tool
toolOperation(o, functionName, args) ==
  CASE functionName = "add_item_to_order" ->
         addItem(o, args.name, sizeOrSingle(args.size),
                 IF args.quantity = 0 THEN 1 ELSE args.quantity)
    [] functionName = "set_delivery_method" -> setDeliveryMethod(o, args.method)
    [] functionName = "set_address"         -> setAddress(o, args.address)
    [] functionName = "set_customer_name"   -> setCustomerName(o, args.name)
    [] functionName = "set_customer_phone"  -> setCustomerPhone(o, args.phone)
    [] functionName = "set_payment_method"  -> setPaymentMethod(o, args.method)
    [] functionName = "confirm_order"       -> confirm(o)

\* the two messages of the tool handshake
functionCallOutput(callId, success, error) ==
  [call_id |-> callId, output |-> [error |-> error, success |-> success],
   type |-> "conversation.item.create"]

ResponseCreate ==
  [call_id |-> 0, output |-> [error |-> NULL, success |-> FALSE],
   type |-> "response.create"]

\* the messages the try block of _handleToolCall sends
replyThenContinue(callId, success, error) ==
  << functionCallOutput(callId, success, error), ResponseCreate >>

\* an error path that only logs the error
replyNothing(callId, error) == << >>

\* an error reply that leaves the error message out
replyWithoutMessage(callId, error) ==
  << functionCallOutput(callId, FALSE, NULL), ResponseCreate >>

\* the messages the catch block of _handleToolCall sends: none for an
\* invocation without a call id (0)
replyOnError(callId, error) ==
  IF callId # 0
  THEN << functionCallOutput(callId, FALSE, error), ResponseCreate >>
  ELSE << >>

\* _handleToolCall(message): the order it leaves and the messages it sends
handleToolCall(o, callId, inv) ==
  IF ~inv.parsable
  THEN [order |-> o, sent |-> replyOnError(callId, "SyntaxError")]
  ELSE IF inv.name \notin KnownTools
  THEN [order |-> o, sent |-> replyThenContinue(callId, FALSE, "Unknown function")]
  ELSE LET r == toolOperation(o, inv.name, inv.arguments)
       IN  IF r.ok
           THEN [order |-> r.order, sent |-> replyThenContinue(callId, TRUE, NULL)]
           ELSE [order |-> r.order, sent |-> replyOnError(callId, r.error)]

\* isReady()
isReady(svc) == svc.ready /\ svc.client # NULL /\ svc.conn = "OPEN"

\* a sendAudio that drops every frame
sendAudioNothing(svc, payload) == [sent |-> << >>, svc |-> svc]

\* a sendAudio that sends the frame twice
sendAudioTwice(svc, payload) ==
  IF ~svc.ready \/ svc.client = NULL \/ svc.conn # "OPEN"
  THEN [sent |-> << >>, svc |-> svc]
  ELSE [sent |-> << [call_id |-> 0, payload |-> payload,
                     type |-> "input_audio_buffer.append"],
                    [call_id |-> 0, payload |-> payload,
                     type |-> "input_audio_buffer.append"] >>,
        svc |-> [svc EXCEPT !.audioChunksSent = @ + 1]]

\* sendAudio(audioBase64): the service after the call and what it sent
sendAudio(svc, payload) ==
  IF ~svc.ready \/ svc.client = NULL \/ svc.conn # "OPEN"
  THEN [sent |-> << >>, svc |-> svc]
  ELSE [sent |-> << [call_id |-> 0, payload |-> payload,
                     type |-> "input_audio_buffer.append"] >>,
        svc |-> [svc EXCEPT !.audioChunksSent = @ + 1]]

\* a close() that leaves the socket and its handlers in place
closeServiceListening(svc) == [svc EXCEPT !.ready = FALSE]

\* close(): listeners removed, the socket closed if open or connecting
closeService(svc) ==
  IF svc.client # NULL
  THEN [svc EXCEPT !.listeners = FALSE,
                   !.conn = IF @ \in {"OPEN", "CONNECTING"} THEN "CLOSED" ELSE @,
                   !.client = NULL, !.ready = FALSE]
  ELSE [svc EXCEPT !.ready = FALSE]

\* a service bound to the first order manager ever made, as if the order
\* manager were one object of the module
connectServiceShared(om) ==
  [NoService EXCEPT !.client = "ws", !.conn = "CONNECTING", !.listeners = TRUE,
                    !.orderManager = 1]

\* new OpenAIService(key, orderManager, onAudio, onTranscript).connect():
\* a new socket with the service's handlers attached
connectService(om) ==
  [NoService EXCEPT !.client = "ws", !.conn = "CONNECTING", !.listeners = TRUE,
                    !.orderManager = om]

\* nothing but the AI services, the orders and the observation change
aiFrame == UNCHANGED <<loggerVars, ws, stream, streamSid, callSid, orderManager,
                       openaiService, audioChunksFromTwilio, audioBuffer,
                       audioBufferTimer, sheetsLogger, framesIn, endCalls, handoffs, ops, peer, menuVars>>

\* a session setup that sends nothing
setupSessionNothing(svc) == << >>

\* _setupSession(): the session configuration (instructions with the menu
\* and the order summary, the tools), then the request for the greeting
setupSession(svc) ==
  << [call_id |-> 0, type |-> "session.update"],
     [call_id |-> 0, instructions |-> "Greet the customer warmly",
      type |-> "response.create"] >>

\* the session.update messages among those sent
sessionUpdatesIn(sent) ==
  Cardinality({ n \in 1..Len(sent) : sent[n].type = "session.update" })

\* client 'open' of service k: _setupSession sends the session configuration
AIOpen(k) ==
  /\ services[k].listeners /\ services[k].conn = "CONNECTING"
  /\ services' = [services EXCEPT
                    ![k].conn = "OPEN",
                    ![k].sessionUpdates = @ + sessionUpdatesIn(setupSession(services[k]))]
  /\ aiSent' = setupSession(services[k])
  /\ twilioSent' = << >>
  /\ UNCHANGED <<orders, toolCalls, deltasIn>>
  /\ aiFrame

\* client 'error' of service k: the connection attempt or the connection
\* failed; the socket goes on to close
AIError(k) ==
  /\ services[k].listeners /\ services[k].conn \in {"CONNECTING", "OPEN"}
  /\ services' = [services EXCEPT ![k].conn = "CLOSING", ![k].ready = FALSE]
  /\ aiSent' = << >> /\ twilioSent' = << >>
  /\ UNCHANGED <<orders, toolCalls, deltasIn>>
  /\ aiFrame

\* client 'close' of service k: after an error, or closed by the AI endpoint
AIClose(k) ==
  /\ services[k].listeners /\ services[k].conn \in {"OPEN", "CLOSING"}
  /\ services' = [services EXCEPT ![k].conn = "CLOSED", ![k].ready = FALSE,
                                  ![k].listeners = FALSE]
  /\ aiSent' = << >> /\ twilioSent' = << >>
  /\ UNCHANGED <<orders, toolCalls, deltasIn>>
  /\ aiFrame

\* _handleMessage of service k: session.created / session.updated
AISessionReady(k) ==
  /\ services[k].listeners /\ services[k].conn = "OPEN"
  /\ services' = [services EXCEPT ![k].ready = TRUE]
  /\ aiSent' = << >> /\ twilioSent' = << >>
  /\ UNCHANGED <<orders, toolCalls, deltasIn>>
  /\ aiFrame

\* the audio deltas the AI channel emits; NULL is a message without delta
Deltas == {"BBBB", NULL}

\* an onAudio callback that sends whatever the state of the socket
onAudioUnchecked(audioBase64) ==
  << [event |-> "media", payload |-> audioBase64, streamSid |-> streamSid] >>

\* the onAudio callback the media stream handler gives the service: forward
\* to the telephony socket if it is open
onAudio(audioBase64) ==
  IF ws = "OPEN"
  THEN << [event |-> "media", payload |-> audioBase64, streamSid |-> streamSid] >>
  ELSE << >>

\* _handleMessage of service k: response.audio.delta
AIAudioDelta(k, delta) ==
  /\ services[k].listeners /\ services[k].conn = "OPEN"
  /\ deltasIn < MaxFrames
  /\ deltasIn' = deltasIn + 1
  /\ IF delta # NULL
     THEN /\ services' = [services EXCEPT ![k].audioChunksReceived = @ + 1]
          /\ twilioSent' = onAudio(delta)
     ELSE /\ twilioSent' = << >>
          /\ UNCHANGED services
  /\ aiSent' = << >>
  /\ UNCHANGED <<orders, toolCalls>>
  /\ aiFrame

\* _handleMessage of service k: response.function_call_arguments.done
AIToolCall(k, inv) ==
  /\ services[k].listeners /\ services[k].conn = "OPEN"
  /\ toolCalls < MaxToolCalls
  /\ toolCalls' = toolCalls + 1
  /\ LET om   == services[k].orderManager
         done == handleToolCall(orders[om], toolCalls + 1, inv)
     IN  /\ orders' = [orders EXCEPT ![om] = done.order]
         /\ aiSent' = done.sent
  /\ twilioSent' = << >>
  /\ UNCHANGED <<services, deltasIn>>
  /\ aiFrame

(***************************************************************************)
(* Media stream handler, direct forwarding  (src/unnamed/part_003)         *)
(***************************************************************************)
\* the start events of the telephony leg: streamSid, callSid (NULL when the
\* event carries none) and the caller's number
StartInputs ==
  { [callSid |-> "CA1", fromNumber |-> "+15551230000", streamSid |-> "MZ1"] }

\* the payloads of media events: two frames that differ, and NULL for an
\* event without payload
FramePayloads == {"AAAA", "CCCC", NULL}

\* case 'start'
TwilioStart(start) ==
  /\ ws = "OPEN"
  /\ Len(orders) < MaxStarts
  /\ streamSid' = start.streamSid
  /\ callSid' = start.callSid
  /\ orders' = Append(orders, createEmptyOrder(start.streamSid, start.callSid,
                                               start.fromNumber))
  /\ orderManager' = Len(orders) + 1
  /\ services' = Append(services, connectService(Len(orders) + 1))
  /\ openaiService' = Len(services) + 1
  /\ stream' = "started"
  /\ aiSent' = << >> /\ twilioSent' = << >>
  /\ UNCHANGED <<loggerVars, ws, audioChunksFromTwilio, audioBuffer,
                 audioBufferTimer, sheetsLogger, toolCalls, framesIn, deltasIn,
                 endCalls, handoffs, ops, peer, menuVars>>

\* case 'media'
TwilioMedia(payload) ==
  /\ ws = "OPEN"
  /\ framesIn < MaxFrames
  /\ framesIn' = framesIn + 1
  /\ IF payload # NULL /\ openaiService # 0 /\ isReady(services[openaiService])
     THEN LET out == sendAudio(services[openaiService], payload)
          IN  /\ services' = [services EXCEPT ![openaiService] = out.svc]
              /\ aiSent' = out.sent
              /\ audioChunksFromTwilio' = audioChunksFromTwilio + 1
     ELSE /\ aiSent' = << >>
          /\ UNCHANGED <<services, audioChunksFromTwilio>>
  /\ twilioSent' = << >>
  /\ UNCHANGED <<loggerVars, ws, stream, streamSid, callSid, orders,
                 orderManager, openaiService, audioBuffer, audioBufferTimer,
                 sheetsLogger, toolCalls, deltasIn, endCalls, handoffs, ops, peer, menuVars>>

\* a teardown that calls the spreadsheet sink only when the webhook logger
\* has a request on the wire
dispatchInTurn(cs, orderData) ==
  LET zapier == logOrder(cs, orderData, "direct")
  IN  IF sheetsLogger /\ zapier[Len(zapier)].pc # "done"
      THEN logOrderToCallLog(zapier, orderData, "direct")
      ELSE zapier

\* the deliver calls _handleCallEnd makes for a snapshot: the webhook logger,
\* then the spreadsheet sink if one was configured
dispatch(cs, orderData) ==
  LET zapier == logOrder(cs, orderData, "direct")
  IN  IF sheetsLogger THEN logOrderToCallLog(zapier, orderData, "direct")
      ELSE zapier

\* a snapshot handed to a sink, with the order manager it was taken from
handoff(hs, sink, orderData) ==
  [hs EXCEPT ![sink] = Append(@, [om |-> orderManager, orderData |-> orderData])]

\* a teardown that keeps its reference to the order manager
orderManagerKept(om) == om

\* orderManager = null, the last statement of the order branch
orderManagerReleased(om) == 0

\* a teardown that hands over only what isReadyToLog() accepts
hasItemsAndIsReady(order) == isReadyToLog(order)

\* a teardown that hands over every order that is not logged, empty or not
notLogged(order) == ~order.logged

\* order.items.length > 0 && !order.logged: the order is handed to the sinks
hasItemsNotLogged(order) == Len(order.items) > 0 /\ ~order.logged

\* _handleCallEnd(reason)
handleCallEnd ==
  /\ endCalls' = endCalls + 1
  /\ stream' = "ended"
  /\ IF openaiService # 0
     THEN /\ services' = [services EXCEPT ![openaiService] = closeService(@)]
          /\ openaiService' = 0
     ELSE UNCHANGED <<services, openaiService>>
  /\ IF orderManager # 0
     THEN /\ LET order == orders[orderManager]
             IN  IF hasItemsNotLogged(order)
                 THEN LET orderData == getOrderForLogging(order)
                      IN  /\ calls' = dispatch(calls, orderData)
                          /\ handoffs' =
                               IF sheetsLogger
                               THEN handoff(handoff(handoffs, "webhook", orderData),
                                            "calllog", orderData)
                               ELSE handoff(handoffs, "webhook", orderData)
                 ELSE UNCHANGED <<calls, handoffs>>
          /\ orderManager' = orderManagerReleased(orderManager)
     ELSE UNCHANGED <<calls, handoffs, orderManager>>
  /\ aiSent' = << >> /\ twilioSent' = << >>
  /\ UNCHANGED <<loggedOrders, delivered, streamSid, callSid, orders,
                 audioChunksFromTwilio, audioBuffer, audioBufferTimer,
                 sheetsLogger, toolCalls, framesIn, deltasIn, ops, peer, menuVars>>

\* case 'stop'
TwilioStop ==
  /\ ws = "OPEN"
  /\ endCalls < MaxStops
  /\ handleCallEnd
  /\ UNCHANGED ws

\* ws.on('close')
TwilioClose ==
  /\ ws = "OPEN"
  /\ ws' = "CLOSED"
  /\ handleCallEnd

\* the tool invocations of a short ordering conversation: an item, an item
\* the menu does not have, the customer's name, the confirmation
CallTools ==
  { inv \in ToolInputs :
      /\ inv.parsable
      /\ \/ inv.name = "add_item_to_order"
         \/ inv.name = "set_customer_name" /\ inv.arguments.name # NULL
         \/ inv.name = "confirm_order" }

\* what a sink's request comes to during a call: accepted, or unavailable
CallOutcomes == { o \in Outcomes : o.kind = "response" /\ o.status \in {200, 503} }

\* one step of a call handled by the direct-forwarding route
Next ==
  \/ \E start \in StartInputs : TwilioStart(start)
  \/ TwilioStop
  \/ TwilioClose
  \/ \E k \in 1..Len(services) : AIOpen(k)
  \/ \E k \in 1..Len(services) : AIError(k)
  \/ \E k \in 1..Len(services) : AIClose(k)
  \/ \E k \in 1..Len(services) : AISessionReady(k)
  \/ \E k \in 1..Len(services), inv \in CallTools : AIToolCall(k, inv)
  \/ \E i \in 1..Len(calls), outcome \in CallOutcomes : SendRequestSettles(i, outcome)
  \/ \E i \in 1..Len(calls) : SleepElapses(i)
  \/ \E i \in 1..Len(calls), outcome \in CallOutcomes : AppendSettles(i, outcome)

Spec == Init /\ [][Next]_vars

\* forwarding of audio on its own: frames from the telephony leg, deltas
\* from the AI leg, the AI connection going up and down
NextAudio ==
  \/ \E start \in StartInputs : TwilioStart(start)
  \/ \E payload \in FramePayloads : TwilioMedia(payload)
  \/ TwilioStop
  \/ TwilioClose
  \/ \E k \in 1..Len(services) : AIOpen(k)
  \/ \E k \in 1..Len(services) : AIError(k)
  \/ \E k \in 1..Len(services) : AIClose(k)
  \/ \E k \in 1..Len(services) : AISessionReady(k)
  \/ \E k \in 1..Len(services), delta \in Deltas : AIAudioDelta(k, delta)

SpecAudio == Init /\ [][NextAudio]_vars

\* the tool handshake on its own: every tool invocation the AI channel can
\* emit, during a call and up to its end
NextTools ==
  \/ \E start \in StartInputs : TwilioStart(start)
  \/ TwilioClose
  \/ \E k \in 1..Len(services) : AIOpen(k)
  \/ \E k \in 1..Len(services), inv \in ToolInputs : AIToolCall(k, inv)

SpecTools == Init /\ [][NextTools]_vars

\* the invocation that adds an item the menu has
ItemTools ==
  { inv \in CallTools :
      inv.name = "add_item_to_order" /\ inv.arguments.name = "glazed donut" }

\* the start events of two calls that are in progress at the same time:
\* the telephony leg gives every stream its own streamSid and callSid
ConcurrentStarts ==
  { [callSid |-> "CA1", fromNumber |-> "+15551230000", streamSid |-> "MZ1"],
    [callSid |-> "CA2", fromNumber |-> "+15554560000", streamSid |-> "MZ2"] }

\* wss.on('connection') runs once per telephony connection, and each run
\* has its own closure variables.  The next event is one of the other
\* connection: its variables become the ones the handlers read and write.
OtherConnection ==
  /\ peer' = [audioChunksFromTwilio |-> audioChunksFromTwilio,
              callSid |-> callSid, openaiService |-> openaiService,
              orderManager |-> orderManager, stream |-> stream,
              streamSid |-> streamSid, ws |-> ws]
  /\ audioChunksFromTwilio' = peer.audioChunksFromTwilio
  /\ callSid' = peer.callSid
  /\ openaiService' = peer.openaiService
  /\ orderManager' = peer.orderManager
  /\ stream' = peer.stream
  /\ streamSid' = peer.streamSid
  /\ ws' = peer.ws
  /\ aiSent' = << >> /\ twilioSent' = << >>
  /\ UNCHANGED <<loggerVars, orders, services, audioBuffer, audioBufferTimer,
                 sheetsLogger, toolCalls, framesIn, deltasIn, endCalls,
                 handoffs, ops, menuVars>>

\* service k was made by the connection whose events are being handled
ownService(k) == orders[services[k].orderManager].streamSid = streamSid

\* deliver call i was made by the connection whose events are being handled
ownCall(i) == calls[i].orderData.streamSid = streamSid

\* the sinks accept every request
AcceptedOutcomes == { o \in CallOutcomes : sendRequestSucceeds(o) }

\* two calls in progress at the same time on two connections, their events
\* interleaved in every way
NextTwoCalls ==
  \/ OtherConnection
  \/ \E start \in ConcurrentStarts :
       /\ start.streamSid # peer.streamSid
       /\ streamSid \in {NULL, start.streamSid}
       /\ TwilioStart(start)
  \/ \E payload \in FramePayloads : TwilioMedia(payload)
  \/ TwilioStop
  \/ TwilioClose
  \/ \E k \in 1..Len(services) : ownService(k) /\ AIOpen(k)
  \/ \E k \in 1..Len(services) : ownService(k) /\ AISessionReady(k)
  \/ \E k \in 1..Len(services), inv \in ItemTools : ownService(k) /\ AIToolCall(k, inv)
  \/ \E i \in 1..Len(calls), outcome \in AcceptedOutcomes :
       ownCall(i) /\ SendRequestSettles(i, outcome)
  \/ \E i \in 1..Len(calls), outcome \in AcceptedOutcomes :
       ownCall(i) /\ AppendSettles(i, outcome)

SpecTwoCalls == Init /\ [][NextTwoCalls]_vars

\* the end of a call with every outcome of the sinks' requests: a call that
\* takes an item, ends, and whose deliveries succeed, fail, time out or
\* break
NextDelivery ==
  \/ \E start \in StartInputs : TwilioStart(start)
  \/ TwilioStop
  \/ TwilioClose
  \/ \E k \in 1..Len(services) : AIOpen(k)
  \/ \E k \in 1..Len(services), inv \in ItemTools : AIToolCall(k, inv)
  \/ \E i \in 1..Len(calls), outcome \in Outcomes : SendRequestSettles(i, outcome)
  \/ \E i \in 1..Len(calls) : SleepElapses(i)
  \/ \E i \in 1..Len(calls), outcome \in Outcomes : AppendSettles(i, outcome)

SpecDelivery == Init /\ [][NextDelivery]_vars

\* a conversation: the tool invocations of a call, some of which the order
\* manager refuses, between the audio frames of the telephony leg, over an
\* AI connection that may fail, up to the end of the call
NextConversation ==
  \/ \E start \in StartInputs : TwilioStart(start)
  \/ \E payload \in FramePayloads : TwilioMedia(payload)
  \/ TwilioStop
  \/ TwilioClose
  \/ \E k \in 1..Len(services) : AIOpen(k)
  \/ \E k \in 1..Len(services) : AIError(k)
  \/ \E k \in 1..Len(services) : AIClose(k)
  \/ \E k \in 1..Len(services) : AISessionReady(k)
  \/ \E k \in 1..Len(services), inv \in CallTools : AIToolCall(k, inv)

SpecConversation == Init /\ [][NextConversation]_vars

\* the tool invocations of an order to be delivered: an item, the
\* customer's name, the delivery method, the address, the confirmation
CheckoutTools ==
  { inv \in ToolInputs :
      /\ inv.parsable
      /\ \/ inv.name = "add_item_to_order" /\ inv.arguments.name = "glazed donut"
         \/ inv.name = "set_customer_name" /\ inv.arguments.name # NULL
         \/ inv.name \in {"set_delivery_method", "set_address", "confirm_order"} }

\* one step of a call in which the customer asks for delivery
NextCheckout ==
  \/ \E start \in StartInputs : TwilioStart(start)
  \/ TwilioStop
  \/ TwilioClose
  \/ \E k \in 1..Len(services) : AIOpen(k)
  \/ \E k \in 1..Len(services), inv \in CheckoutTools : AIToolCall(k, inv)

SpecCheckout == Init /\ [][NextCheckout]_vars

\* the add_item_to_order invocations by the quantity they carry: none, one
\* that is more than one, and a negative one
AddItemInputs ==
  { [arguments |-> [NoArgs EXCEPT !.name = "glazed donut", !.size = "dozen"],
     name |-> "add_item_to_order", parsable |-> TRUE],
    [arguments |-> [NoArgs EXCEPT !.name = "glazed donut", !.quantity = 2,
                                  !.size = "dozen"],
     name |-> "add_item_to_order", parsable |-> TRUE],
    [arguments |-> [NoArgs EXCEPT !.name = "glazed donut", !.quantity = -1,
                                  !.size = "dozen"],
     name |-> "add_item_to_order", parsable |-> TRUE],
    [arguments |-> [NoArgs EXCEPT !.name = "coffee", !.quantity = -1,
                                  !.size = "medium"],
     name |-> "add_item_to_order", parsable |-> TRUE] }

\* the items of a call: add_item_to_order invocations with every kind of
\* quantity, during a call and up to its end
NextItems ==
  \/ \E start \in StartInputs : TwilioStart(start)
  \/ TwilioClose
  \/ \E k \in 1..Len(services) : AIOpen(k)
  \/ \E k \in 1..Len(services), inv \in AddItemInputs : AIToolCall(k, inv)

SpecItems == Init /\ [][NextItems]_vars

(***************************************************************************)
(* Media stream handler, batching  (src/src/routes/media-stream.js)        *)
(***************************************************************************)
\* the name the connection's URL carries, used as call id until a start
\* event brings one
streamName == "media-stream"

\* the batching handler has no spreadsheet sink
InitLegacy ==
  /\ loggedOrders = {}
  /\ calls = << >>
  /\ delivered = {}
  /\ ws = "OPEN"
  /\ stream = "connected"
  /\ streamSid = NULL /\ callSid = streamName
  /\ orders = << >> /\ orderManager = 0
  /\ services = << >> /\ openaiService = 0
  /\ audioChunksFromTwilio = 0
  /\ audioBuffer = << >> /\ audioBufferTimer = FALSE
  /\ sheetsLogger = FALSE
  /\ aiSent = << >> /\ twilioSent = << >>
  /\ toolCalls = 0 /\ framesIn = 0 /\ deltasIn = 0 /\ endCalls = 0
  /\ handoffs = [sink \in {"webhook", "calllog"} |-> << >>]
  /\ ops = << >>
  /\ peer = NoConnection
  /\ dynamicMenuItems = << >> /\ lookup = NoLookup

\* case 'start'
LegacyStart(start) ==
  /\ ws = "OPEN"
  /\ Len(orders) < MaxStarts
  /\ LET cid == IF start.callSid # NULL THEN start.callSid ELSE callSid
     IN  /\ callSid' = cid
         /\ orders' = Append(orders, createEmptyOrder(start.streamSid, cid,
                                                      start.fromNumber))
  /\ streamSid' = start.streamSid
  /\ orderManager' = Len(orders) + 1
  /\ services' = Append(services, connectService(Len(orders) + 1))
  /\ openaiService' = Len(services) + 1
  /\ stream' = "started"
  /\ aiSent' = << >> /\ twilioSent' = << >>
  /\ UNCHANGED <<loggerVars, ws, audioChunksFromTwilio, audioBuffer,
                 audioBufferTimer, sheetsLogger, toolCalls, framesIn, deltasIn,
                 endCalls, handoffs, ops, peer, menuVars>>

\* case 'media': the payload is buffered and the flush timer started
LegacyMedia(payload) ==
  /\ ws = "OPEN"
  /\ framesIn < MaxFrames
  /\ framesIn' = framesIn + 1
  /\ IF payload # NULL
     THEN /\ audioBuffer' = Append(audioBuffer, payload)
          /\ audioBufferTimer' = TRUE
     ELSE UNCHANGED <<audioBuffer, audioBufferTimer>>
  /\ aiSent' = << >> /\ twilioSent' = << >>
  /\ UNCHANGED <<loggerVars, ws, stream, streamSid, callSid, orders,
                 orderManager, services, openaiService, audioChunksFromTwilio,
                 sheetsLogger, toolCalls, deltasIn, endCalls, handoffs, ops, peer, menuVars>>

\* the buffered audio, joined, goes to the AI channel if it is ready: what
\* the buffer, the services and the AI socket's traffic become
flushAudio ==
  IF /\ Len(audioBuffer) > 0
     /\ openaiService # 0
     /\ isReady(services[openaiService])
  THEN LET out == sendAudio(services[openaiService], audioBuffer)
       IN  [audioBuffer |-> << >>, sent |-> out.sent,
            services |-> [services EXCEPT ![openaiService] = out.svc]]
  ELSE [audioBuffer |-> audioBuffer, sent |-> << >>, services |-> services]

\* a tick of the setInterval timer
LegacyFlush ==
  /\ audioBufferTimer
  /\ Len(audioBuffer) > 0
  /\ audioBuffer' = flushAudio.audioBuffer
  /\ services' = flushAudio.services
  /\ aiSent' = flushAudio.sent
  /\ twilioSent' = << >>
  /\ UNCHANGED <<loggerVars, ws, stream, streamSid, callSid, orders,
                 orderManager, openaiService, audioChunksFromTwilio,
                 audioBufferTimer, sheetsLogger, toolCalls, framesIn, deltasIn,
                 endCalls, handoffs, ops, peer, menuVars>>

\* the end of a handler that may deliver: the reference to the service is
\* kept, the service closed, and the order delivered if `ready`
legacyEnd(svcs, ready) ==
  /\ endCalls' = endCalls + 1
  /\ stream' = "ended"
  /\ audioBufferTimer' = FALSE
  /\ services' = IF openaiService # 0
                 THEN [svcs EXCEPT ![openaiService] = closeService(@)]
                 ELSE svcs
  /\ IF ready
     THEN LET orderData == getOrderForLogging(orders[orderManager])
              cs == logOrder(calls, orderData, "legacy")
              c  == cs[Len(cs)]
          IN  /\ calls' = cs
              /\ handoffs' = handoff(handoffs, "webhook", orderData)
              \* a call that is over when it returns: its .then runs now
              /\ orders' = IF c.pc = "done" /\ c.result.success
                           THEN [orders EXCEPT ![orderManager] = markAsLogged(@)]
                           ELSE orders
     ELSE UNCHANGED <<calls, handoffs, orders>>
  /\ twilioSent' = << >>
  /\ UNCHANGED <<loggedOrders, delivered, streamSid, callSid, orderManager,
                 openaiService, audioChunksFromTwilio, sheetsLogger,
                 toolCalls, framesIn, deltasIn, ops, peer, menuVars>>

\* case 'stop'
LegacyStop ==
  /\ ws = "OPEN"
  /\ endCalls < MaxStops
  /\ audioBuffer' = flushAudio.audioBuffer
  /\ aiSent' = flushAudio.sent
  /\ legacyEnd(flushAudio.services,
               orderManager # 0 /\ isReadyToLog(orders[orderManager]))
  /\ UNCHANGED ws

\* ws.on('close')
LegacyClose ==
  /\ ws = "OPEN"
  /\ ws' = "CLOSED"
  /\ aiSent' = << >>
  /\ UNCHANGED audioBuffer
  /\ legacyEnd(services,
               /\ orderManager # 0
               /\ isReadyToLog(orders[orderManager])
               /\ ~orders[orderManager].logged)

\* one step of a call handled by the batching route
NextLegacy ==
  \/ \E start \in StartInputs : LegacyStart(start)
  \/ \E payload \in FramePayloads : LegacyMedia(payload)
  \/ LegacyFlush
  \/ LegacyStop
  \/ LegacyClose
  \/ \E k \in 1..Len(services) : AIOpen(k)
  \/ \E k \in 1..Len(services) : AISessionReady(k)
  \/ \E k \in 1..Len(services), inv \in CallTools : AIToolCall(k, inv)
  \/ \E i \in 1..Len(calls), outcome \in CallOutcomes : SendRequestSettles(i, outcome)
  \/ \E i \in 1..Len(calls) : SleepElapses(i)

SpecLegacy == InitLegacy /\ [][NextLegacy]_vars

(***************************************************************************)
(* The dispatcher on its own: deliver calls made in any order, with any    *)
(* outcome of each request                                                 *)
(***************************************************************************)
\* the orders handed to the dispatcher: one line of glazed donuts, for a
\* call with a call id, the same call id on another stream, and no call id
HarnessOrders ==
  { getOrderForLogging(
      addItem(createEmptyOrder(ids[1], ids[2], "+15551230000"),
              "glazed donut", "dozen", 1).order) :
      ids \in { <<"MZ1", "CA1">>, <<"MZ2", "CA1">>, <<"MZ1", NULL>> } }

HarnessLogOrder(orderData) ==
  /\ Len(calls) < MaxCalls
  /\ calls' = logOrder(calls, orderData, "harness")
  /\ aiSent' = << >> /\ twilioSent' = << >>
  /\ UNCHANGED <<loggedOrders, delivered, sessionVars, toolCalls, framesIn, deltasIn, endCalls, handoffs, ops, peer, menuVars>>

HarnessLogOrderToGoogleSheets(orderData) ==
  /\ Len(calls) < MaxCalls
  /\ calls' = logOrderToGoogleSheets(calls, orderData, "harness")
  /\ aiSent' = << >> /\ twilioSent' = << >>
  /\ UNCHANGED <<loggedOrders, delivered, sessionVars,
                 toolCalls, framesIn, deltasIn, endCalls, handoffs, ops, peer, menuVars>>

\* the webhook logger called in any order, any outcome for each request
NextLogger ==
  \/ \E od \in HarnessOrders : HarnessLogOrder(od)
  \/ \E i \in 1..Len(calls), outcome \in Outcomes : SendRequestSettles(i, outcome)
  \/ \E i \in 1..Len(calls) : SleepElapses(i)

SpecLogger == Init /\ [][NextLogger]_vars

\* every request comes to an end (a response, an error, or the timeout of
\* 10 s that _sendRequest sets) and every timer of _sleep fires
FairLogger ==
  \A i \in 1..MaxCalls :
    /\ WF_vars(i <= Len(calls) /\ \E outcome \in Outcomes : SendRequestSettles(i, outcome))
    /\ WF_vars(i <= Len(calls) /\ SleepElapses(i))

SpecLoggerFair == SpecLogger /\ FairLogger

\* the order log sheet sink called in any order, any outcome for each append
NextSheets ==
  \/ \E od \in HarnessOrders : HarnessLogOrderToGoogleSheets(od)
  \/ \E i \in 1..Len(calls), outcome \in Outcomes : AppendSettles(i, outcome)
  \/ \E i \in 1..Len(calls) : BackoffElapses(i)

SpecSheets == Init /\ [][NextSheets]_vars

(***************************************************************************)
(* The order aggregate on its own: the methods of one OrderManager called  *)
(* in any order  (src/src/services/order-manager.js)                       *)
(***************************************************************************)
\* the arguments of the addItem calls: an item by its name, in capitals, with
\* no size, a second item, an item the menu does not have, and a quantity
\* that takes one back
AddItemArgs ==
  { [NoArgs EXCEPT !.name = "glazed donut", !.quantity = 1, !.size = "dozen"],
    [NoArgs EXCEPT !.name = "GLAZED DONUT", !.quantity = 2, !.size = "dozen"],
    [NoArgs EXCEPT !.name = "glazed donut", !.quantity = 1],
    [NoArgs EXCEPT !.name = "coffee", !.quantity = 2, !.size = "medium"],
    [NoArgs EXCEPT !.name = "pizza", !.quantity = 1],
    [NoArgs EXCEPT !.name = "glazed donut", !.quantity = -1, !.size = "dozen"] }

\* the arguments of the setCustomerName calls: a name, and blanks
CustomerNameArgs ==
  { [NoArgs EXCEPT !.name = " Jane Smith "], [NoArgs EXCEPT !.name = "   "] }

\* nothing but the orders and the history of method calls changes
orderFrame ==
  UNCHANGED <<loggerVars, ws, stream, streamSid, callSid, orderManager,
              services, openaiService, audioChunksFromTwilio, audioBuffer,
              audioBufferTimer, sheetsLogger, aiSent, twilioSent, toolCalls,
              framesIn, deltasIn, endCalls, handoffs, peer, menuVars>>

\* new OrderManager(streamSid, callSid, fromNumber)
OrderNew(start) ==
  /\ orders = << >>
  /\ orders' = << createEmptyOrder(start.streamSid, start.callSid,
                                   start.fromNumber) >>
  /\ UNCHANGED <<ops, peer, menuVars>>
  /\ orderFrame

\* a method of the order manager was called with args and came to r
called(method, args, r) ==
  /\ Len(orders) = 1
  /\ Len(ops) < MaxOps
  /\ orders' = [orders EXCEPT ![1] = r.order]
  /\ ops' = Append(ops, [arguments |-> args, name |-> method, ok |-> r.ok])
  /\ orderFrame

OrderAddItem(args) ==
  /\ Len(orders) = 1
  /\ called("addItem", args,
            addItem(orders[1], args.name, args.size, args.quantity))

OrderSetDeliveryMethod(args) ==
  /\ Len(orders) = 1
  /\ called("setDeliveryMethod", args, setDeliveryMethod(orders[1], args.method))

OrderSetAddress(args) ==
  /\ Len(orders) = 1
  /\ called("setAddress", args, setAddress(orders[1], args.address))

OrderSetCustomerName(args) ==
  /\ Len(orders) = 1
  /\ called("setCustomerName", args, setCustomerName(orders[1], args.name))

OrderSetCustomerPhone(args) ==
  /\ Len(orders) = 1
  /\ called("setCustomerPhone", args, setCustomerPhone(orders[1], args.phone))

OrderSetPaymentMethod(args) ==
  /\ Len(orders) = 1
  /\ called("setPaymentMethod", args, setPaymentMethod(orders[1], args.method))

OrderConfirm ==
  /\ Len(orders) = 1
  /\ called("confirm", NoArgs, confirm(orders[1]))

OrderMarkAsLogged ==
  /\ Len(orders) = 1
  /\ called("markAsLogged", NoArgs, returns(markAsLogged(orders[1])))

\* the methods of one order manager called in any order
NextOrder ==
  \/ \E start \in StartInputs : OrderNew(start)
  \/ \E args \in AddItemArgs : OrderAddItem(args)
  \/ OrderSetDeliveryMethod([NoArgs EXCEPT !.method = "delivery"])
  \/ OrderSetAddress([NoArgs EXCEPT !.address = " 1 Main St "])
  \/ \E args \in CustomerNameArgs : OrderSetCustomerName(args)
  \/ OrderSetCustomerPhone([NoArgs EXCEPT !.phone = "+15559870000"])
  \/ OrderSetPaymentMethod([NoArgs EXCEPT !.method = "Credit Card"])
  \/ OrderConfirm
  \/ OrderMarkAsLogged

SpecOrder == Init /\ [][NextOrder]_vars

(***************************************************************************)
(* Properties of the webhook dispatcher, checked under SpecLogger          *)
(***************************************************************************)
\* the webhook deliver calls made so far
WebhookCalls == { i \in 1..Len(calls) : calls[i].sink = "webhook" }

\* call i has ended and reports that the key was already delivered
ReportsAlreadyDelivered(i) ==
  /\ calls[i].pc = "done"
  /\ calls[i].result.success /\ calls[i].result.skipped

\* call i has ended in failure
ReportsFailure(i) == calls[i].pc = "done" /\ ~calls[i].result.success

\* C4: a deliver call made with a key for which an earlier call is still in
\* flight sends nothing and reports 'already delivered'.
C4_InFlightDuplicateIsNoOp ==
  \A i \in WebhookCalls :
    calls[i].inFlightAtCall => calls[i].sends = 0 /\ ReportsAlreadyDelivered(i)

\* C5: a deliver call made after a send for its key (the call id, or the
\* stream id when there is no call id) succeeded reports an 'already
\* delivered' success and makes no send.
C5_DeliveredKeyIsSkipped ==
  \A i \in WebhookCalls :
    calls[i].deliveredAtCall => calls[i].sends = 0 /\ ReportsAlreadyDelivered(i)

\* a call keyed by its stream id was made after that key's delivery
C5_Witness ==
  \E i \in WebhookCalls :
    /\ calls[i].deliveredAtCall
    /\ calls[i].orderData.callSid = NULL
    /\ calls[i].key = calls[i].orderData.streamSid
    /\ ReportsAlreadyDelivered(i)

\* C6: a deliver call never makes more than maxRetries sends, makes none
\* after its first successful one, and its success carries as attempt the
\* number of sends it made.
C6_StopsAtFirstSuccess ==
  \A i \in WebhookCalls :
    /\ calls[i].sends <= maxRetries
    /\ (calls[i].last.kind # "none" /\ sendRequestSucceeds(calls[i].last)) =>
         /\ calls[i].pc = "done"
         /\ calls[i].result.success /\ ~calls[i].result.skipped
         /\ calls[i].result.attempt = calls[i].sends

\* two failed sends, then success on the third: attempt 3
C6_Witness ==
  \E i \in WebhookCalls :
    /\ calls[i].pc = "done" /\ calls[i].result.success
    /\ calls[i].result.attempt = 3 /\ calls[i].sends = 3

\* C7: a send that fails with a failure that is not transient (no timeout,
\* no connection reset, no 429/502/503 response) ends the deliver call: no
\* backoff, no further send, and a failure after one send reports attempts=1.
C7_TerminalFailureNotRetried ==
  \A i \in WebhookCalls :
    ( /\ calls[i].last.kind # "none"
      /\ ~sendRequestSucceeds(calls[i].last)
      /\ ~isRetryable(calls[i].last) ) =>
        /\ ReportsFailure(i)
        /\ calls[i].sends = 1 => calls[i].result.attempts = 1

\* C8: the delivered-key set holds exactly the keys for which a send
\* succeeded; a call that ends in failure carries the number of attempts it
\* made, and a call made for a key that is not delivered sends again.
C8_DeliveredKeysExact ==
  /\ loggedOrders = delivered
  /\ \A i \in WebhookCalls :
       /\ ReportsFailure(i) =>
            /\ calls[i].result.attempts = calls[i].sends
            /\ calls[i].key \in loggedOrders =>
                 \E j \in WebhookCalls : calls[j].key = calls[i].key
                                         /\ calls[j].result.success
       /\ ~calls[i].deliveredAtCall => calls[i].sends >= 1

\* a call ended in failure and a later call for its key is sending again
C8_Witness ==
  \E i, j \in WebhookCalls :
    /\ i < j
    /\ calls[j].key = calls[i].key
    /\ ReportsFailure(i) /\ calls[i].result.attempts = maxRetries
    /\ ~calls[j].inFlightAtCall
    /\ calls[j].sends >= 1
    /\ calls[i].key \notin loggedOrders

(***************************************************************************)
(* Properties of a call, checked under Spec and SpecTools                  *)
(***************************************************************************)
\* the sinks setupMediaStream was given
ConfiguredSinks == IF sheetsLogger THEN {"webhook", "calllog"} ELSE {"webhook"}

\* the deliver calls the end of call made to a sink, in order
EndOfCallCalls(sink) ==
  { i \in 1..Len(calls) : calls[i].owner = "direct" /\ calls[i].sink = sink }

\* the order manager whose snapshot deliver call i was given
OrderOfCall(i) ==
  handoffs[calls[i].sink][Cardinality({ j \in EndOfCallCalls(calls[i].sink) : j <= i })].om

\* this step is an end-of-call trigger (stop or close) being handled
EndOfCallStep == endCalls' = endCalls + 1

\* C1 (state part): no sink is handed the snapshot of one order twice, a sink
\* that is not configured is handed nothing, and every handover is a deliver
\* call to that sink.
C1_AtMostOnce ==
  \A sink \in {"webhook", "calllog"} :
    /\ \A a, b \in 1..Len(handoffs[sink]) :
         a # b => handoffs[sink][a].om # handoffs[sink][b].om
    /\ sink \notin ConfiguredSinks => handoffs[sink] = << >>
    /\ Cardinality(EndOfCallCalls(sink)) = Len(handoffs[sink])

\* C1 (step part): an end-of-call trigger that finds an order with items and
\* not logged hands its snapshot to every configured sink, once; no other
\* step hands anything over.
C1_ExactlyOnceAtFirstTrigger ==
  \A sink \in ConfiguredSinks :
    IF /\ EndOfCallStep
       /\ orderManager # 0
       /\ Len(orders[orderManager].items) > 0
       /\ ~orders[orderManager].logged
    THEN /\ handoffs'[sink] =
              Append(handoffs[sink],
                     [om |-> orderManager,
                      orderData |-> getOrderForLogging(orders[orderManager])])
         /\ \A a \in 1..Len(handoffs[sink]) : handoffs[sink][a].om # orderManager
    ELSE handoffs'[sink] = handoffs[sink]

\* C1: within one session, for every interleaving of stop and close, each
\* configured sink is handed the snapshot of an order at most once, and
\* exactly once when the order has an item and is not logged at the first
\* end-of-call trigger.
C1_SnapshotHandedOverOnce ==
  [] C1_AtMostOnce /\ [][C1_ExactlyOnceAtFirstTrigger]_vars

\* stop and then close were handled for one order with an item, and each
\* configured sink (the spreadsheet sink among them) holds one snapshot
C1_Witness ==
  /\ endCalls = 2 /\ Len(orders) = 1 /\ sheetsLogger
  /\ Len(orders[1].items) > 0
  /\ \A sink \in ConfiguredSinks : Len(handoffs[sink]) = 1

\* C2: an end-of-call trigger handled after the teardown has run (and before
\* any new start) is a pure no-op: it closes no connection, sends no
\* message, starts no delivery and changes no session or order state.
C2_SecondTeardownIsNoOp ==
  [][ (EndOfCallStep /\ stream = "ended") =>
        /\ UNCHANGED <<loggerVars, streamSid, callSid, orders, orderManager,
                       services, openaiService, audioChunksFromTwilio,
                       audioBuffer, audioBufferTimer, sheetsLogger, handoffs>>
        /\ aiSent' = << >> /\ twilioSent' = << >> ]_vars

\* the second trigger of a call whose first trigger closed the AI connection
\* and started a delivery has been handled
C2_Witness ==
  /\ endCalls = 2 /\ Len(orders) = 1 /\ stream = "ended"
  /\ ws = "CLOSED"
  /\ Len(calls) > 0
  /\ services[1].client = NULL

\* C3: every tool invocation (success, domain error, unknown tool, unparsable
\* arguments) is answered in the same step by one function_call_output with
\* the invocation's call id, followed by one response.create.
C3_ReplyThenContinue ==
  [][ toolCalls' = toolCalls + 1 =>
        /\ Len(aiSent') = 2
        /\ aiSent'[1].type = "conversation.item.create"
        /\ aiSent'[1].call_id = toolCalls'
        /\ aiSent'[2] = ResponseCreate ]_vars

\* an invocation with unparsable arguments has just been answered, after an
\* invocation that succeeded
C3_Witness ==
  /\ toolCalls >= 2
  /\ Len(aiSent) = 2
  /\ aiSent[1].call_id = toolCalls
  /\ aiSent[1].output.error = "SyntaxError"
  /\ \E g \in 1..Len(orders) : Len(orders[g].items) > 0

\* C9: a confirmed order with an item and a customer name is handed over at
\* the stop event, and once a delivery of it has completed successfully (the
\* completion handler has run) the order is logged.
C9_LoggedAfterSuccessfulDispatch ==
  \A sink \in ConfiguredSinks :
    \A i \in EndOfCallCalls(sink) :
      ( /\ orders[OrderOfCall(i)].confirmed
        /\ calls[i].cb # "pending"
        /\ calls[i].result.success ) => orders[OrderOfCall(i)].logged

\* C10: an order is logged only if a delivery of that order reported success.
C10_LoggedOnlyAfterOwnSuccess ==
  \A g \in 1..Len(orders) :
    orders[g].logged =>
      \E sink \in ConfiguredSinks : \E i \in EndOfCallCalls(sink) :
        OrderOfCall(i) = g /\ calls[i].pc = "done" /\ calls[i].result.success

\* the snapshots handed to a sink all have an item
HandedOrdersHaveItems ==
  \A sink \in {"webhook", "calllog"} :
    \A a \in 1..Len(handoffs[sink]) : Len(handoffs[sink][a].orderData.items) > 0

\* an end of call that finds an order hands it to every configured sink, and
\* starts a delivery, exactly if the order has an item and is not logged
HandedIffItemsAndNotLogged ==
  (EndOfCallStep /\ orderManager # 0) =>
     LET order == orders[orderManager]
         due   == Len(order.items) > 0 /\ ~order.logged
     IN  /\ \A sink \in ConfiguredSinks :
              Len(handoffs'[sink]) = Len(handoffs[sink]) + (IF due THEN 1 ELSE 0)
         /\ Len(calls') > Len(calls) <=> due

\* C11: at end of call the snapshot is handed to the dispatcher if and only
\* if the order has at least one item and is not logged, whether it is
\* confirmed or not; an order without items is never handed over.
C11_DispatchIffItemsAndNotLogged ==
  [] HandedOrdersHaveItems /\ [][HandedIffItemsAndNotLogged]_vars

\* an order with an item, no customer name and no confirmation was handed
\* over at the end of its call
C11_Witness ==
  /\ endCalls >= 1
  /\ \E a \in 1..Len(handoffs["webhook"]) :
       LET h == handoffs["webhook"][a]
       IN  /\ h.orderData.status = "pending"
           /\ h.orderData.customerName = NULL
           /\ ~orders[h.om].confirmed

(***************************************************************************)
(* Properties of the audio flows, checked under SpecAudio                  *)
(***************************************************************************)
\* the AI connection of the call is ready: the session is configured and the
\* socket open
AIConnectionReady ==
  /\ openaiService # 0
  /\ services[openaiService].ready
  /\ services[openaiService].client # NULL
  /\ services[openaiService].conn = "OPEN"

\* the message that carries a telephony frame to the AI channel
AudioAppend(payload) ==
  [call_id |-> 0, payload |-> payload, type |-> "input_audio_buffer.append"]

\* a frame is forwarded, alone and as it came, in the step that receives it
\* if the AI connection is ready then, and otherwise nothing is sent
FrameForwardedIffReady ==
  \A payload \in FramePayloads \ {NULL} :
    TwilioMedia(payload) =>
      aiSent' = IF AIConnectionReady THEN << AudioAppend(payload) >> ELSE << >>

\* no step but the one that receives a frame sends audio to the AI channel
NoFrameSentLater ==
  (\E m \in 1..Len(aiSent') : aiSent'[m].type = "input_audio_buffer.append")
     => framesIn' = framesIn + 1

\* C12: an inbound telephony audio frame is sent to the AI channel if and
\* only if the AI connection is ready when the frame arrives; a frame that
\* arrives before readiness is dropped and never sent later.
C12_FrameForwardedIffReady ==
  [][FrameForwardedIffReady /\ NoFrameSentLater]_vars

\* of two media events one was not forwarded, and the later one has just
\* been forwarded alone
C12_Witness ==
  /\ framesIn = 2
  /\ audioChunksFromTwilio = 1
  /\ aiSent = << AudioAppend("AAAA") >>

\* the message that carries an audio delta to the telephony leg
TwilioMediaMessage(delta) ==
  [event |-> "media", payload |-> delta, streamSid |-> streamSid]

\* a delta is forwarded, alone and as it came, in the step that receives it
\* if the telephony socket is open then, and otherwise nothing is sent
DeltaForwardedIffOpen ==
  \A k \in 1..Len(services) : \A delta \in Deltas \ {NULL} :
    AIAudioDelta(k, delta) =>
      twilioSent' = IF ws = "OPEN" THEN << TwilioMediaMessage(delta) >> ELSE << >>

\* no step but the one that receives a delta sends to the telephony leg
NoDeltaSentLater == twilioSent' # << >> => deltasIn' = deltasIn + 1

\* C13: each audio delta received from the AI channel is forwarded to the
\* telephony leg once, unmodified, if the telephony socket is open at that
\* moment, and is dropped, never to be sent later, otherwise.
C13_DeltaForwardedIffOpen ==
  [][DeltaForwardedIffOpen /\ NoDeltaSentLater]_vars

\* a delta received after the telephony socket closed has just been dropped,
\* after an earlier one
C13_Witness ==
  /\ ws = "CLOSED"
  /\ deltasIn = 2
  /\ twilioSent = << >>
  /\ \E k \in 1..Len(services) : services[k].audioChunksReceived = 2

(***************************************************************************)
(* Properties of the end of a call, checked under Spec                     *)
(***************************************************************************)
\* C14: once the teardown of a session has run, no later event of the
\* session has an effect: no audio is forwarded, no AI connection is opened,
\* no order manager is created, no delivery is started and no tool
\* invocation is processed.
C14_NoEffectAfterTeardown ==
  [][ stream = "ended" =>
        /\ Len(services') = Len(services)
        /\ Len(orders') = Len(orders)
        /\ openaiService' = openaiService /\ orderManager' = orderManager
        /\ Len(calls') = Len(calls)
        /\ toolCalls' = toolCalls
        /\ aiSent' = << >> /\ twilioSent' = << >> ]_vars

(***************************************************************************)
(* Properties of the order aggregate, checked under SpecOrder              *)
(***************************************************************************)
\* the pair of a line item: its name and its size, a missing size being
\* 'single'
PairOfLine(item) == << item.name, sizeOrSingle(item.size) >>

\* the pair an addItem call is for: the name of the menu item its argument
\* resolves to (whatever its case) and its size
PairOfCall(args) ==
  << findMenuItem(args.name).name, sizeOrSingle(args.size) >>

\* call n of the history is an addItem call that returned
AddedAt(n) == ops[n].name = "addItem" /\ ops[n].ok

\* the sum of the quantities of the addItem calls for a pair that returned,
\* among the first n calls of the history
RECURSIVE QuantityAdded(_, _)
QuantityAdded(pair, n) ==
  IF n = 0 THEN 0
  ELSE QuantityAdded(pair, n - 1)
       + (IF AddedAt(n) /\ PairOfCall(ops[n].arguments) = pair
          THEN ops[n].arguments.quantity ELSE 0)

\* C15: after any sequence of addItem calls the order holds at most one line
\* per pair of item name and size, a pair has a line once an addItem call for
\* it returned, and the line's quantity is the sum of the quantities of the
\* calls for its pair that returned.
C15_OneLinePerPair ==
  \A g \in 1..Len(orders) :
    LET items == orders[g].items
    IN  /\ \A i, j \in 1..Len(items) :
             i # j => PairOfLine(items[i]) # PairOfLine(items[j])
        /\ \A i \in 1..Len(items) :
             items[i].quantity = QuantityAdded(PairOfLine(items[i]), Len(ops))
        /\ \A n \in 1..Len(ops) :
             AddedAt(n) =>
               \E i \in 1..Len(items) :
                  PairOfLine(items[i]) = PairOfCall(ops[n].arguments)

\* one dozen glazed donuts, then two dozen asked for in capitals: one line of
\* quantity 3 at 22.99, subtotal 68.97
C15_Witness ==
  /\ Len(orders) = 1 /\ Len(ops) = 2
  /\ AddedAt(1) /\ ops[1].arguments.name = "glazed donut"
  /\ AddedAt(2) /\ ops[2].arguments.name = "GLAZED DONUT"
  /\ Len(orders[1].items) = 1
  /\ orders[1].items[1].quantity = 3
  /\ orders[1].items[1].price = 2299
  /\ orders[1].subtotal = 6897

\* the sum of unitPrice * quantity over the first n line items, in cents
RECURSIVE LineSum(_, _)
LineSum(items, n) ==
  IF n = 0 THEN 0
  ELSE LineSum(items, n - 1) + items[n].price * items[n].quantity

\* an amount of hundredths of a cent rounded to the nearest cent
RoundToCent(x) == (x + 50) \div 100

\* C16: in every order state reachable through the order operations the
\* subtotal is the sum of unitPrice * quantity over the line items, the tax
\* is the subtotal times the tax rate of 0.08 rounded to the cent, and the
\* total is the subtotal plus the tax; the totals are never stale.
C16_TotalsMatchLines ==
  \A g \in 1..Len(orders) :
    LET o == orders[g]
    IN  /\ o.subtotal = LineSum(o.items, Len(o.items))
        /\ o.tax = RoundToCent(o.subtotal * 8)
        /\ o.total = o.subtotal + o.tax

\* this step is a call of the named method of the order manager
MethodStep(method) ==
  /\ Len(ops') = Len(ops) + 1
  /\ ops'[Len(ops')].name = method

\* the order has a customer name
HasCustomerName(o) == o.customerName # NULL /\ o.customerName # ""

\* C17: confirm() fails and leaves confirmed=false when the order has no
\* items, and when it has items but no customer name; it succeeds and sets
\* confirmed=true when the order has items and a customer name.
C17_ConfirmNeedsItemsAndName ==
  [][ MethodStep("confirm") =>
        IF Len(orders[1].items) > 0 /\ HasCustomerName(orders[1])
        THEN /\ ops'[Len(ops')].ok
             /\ orders'[1].confirmed
        ELSE /\ ~ops'[Len(ops')].ok
             /\ ~orders[1].confirmed
             /\ orders'[1] = orders[1] ]_vars

\* confirm was refused for an order with an item and no name, and accepted
\* once the name was set
C17_Witness ==
  /\ Len(orders) = 1 /\ Len(ops) = 4
  /\ AddedAt(1)
  /\ ops[2].name = "confirm" /\ ~ops[2].ok
  /\ ops[3].name = "setCustomerName" /\ ops[3].ok
  /\ ops[4].name = "confirm" /\ ops[4].ok
  /\ orders[1].confirmed

\* a call of confirm() has returned normally
ConfirmSucceeded == \E i \in 1..Len(ops) : ops[i].name = "confirm" /\ ops[i].ok

\* isReadyToLog() is true in exactly the states the claim names
ReadyExactly ==
  \A g \in 1..Len(orders) :
    LET o == orders[g]
    IN  isReadyToLog(o) <=>
          (o.confirmed /\ Len(o.items) > 0 /\ HasCustomerName(o) /\ ~o.logged)

\* before confirm() has succeeded the order is not ready to be logged
NotReadyBeforeConfirm ==
  (Len(orders) = 1 /\ ~ConfirmSucceeded) => ~isReadyToLog(orders[1])

\* a successful confirm() of an order that is not logged makes it ready
ReadyAfterConfirm ==
  (MethodStep("confirm") /\ ops'[Len(ops')].ok /\ ~orders[1].logged)
    => isReadyToLog(orders'[1])

\* after markAsLogged() the order is not ready
NotReadyAfterMarkAsLogged ==
  MethodStep("markAsLogged") => ~isReadyToLog(orders'[1])

\* C18: isReadyToLog() is true exactly when the order is confirmed, has at
\* least one item, has a customer name and is not logged: it is false before
\* confirm() has succeeded, true immediately after the successful confirm()
\* of an order that is not logged, and false again after markAsLogged().
C18_ReadyToLogExactly ==
  /\ [] ReadyExactly
  /\ [] NotReadyBeforeConfirm
  /\ [][ReadyAfterConfirm]_vars
  /\ [][NotReadyAfterMarkAsLogged]_vars

\* the order was ready after confirm() and is no longer ready once it has
\* been marked as logged
C18_Witness ==
  /\ Len(orders) = 1 /\ Len(ops) = 4
  /\ AddedAt(1)
  /\ ops[2].name = "setCustomerName" /\ ops[2].ok
  /\ ops[3].name = "confirm" /\ ops[3].ok
  /\ ops[4].name = "markAsLogged"
  /\ orders[1].confirmed /\ orders[1].logged
  /\ ~isReadyToLog(orders[1])

\* no order object goes from logged to not logged in this step
LoggedNeverReset ==
  \A g \in 1..Len(orders) : orders[g].logged => orders'[g].logged

\* markAsLogged() of an order that is already logged changes nothing
MarkAsLoggedIdempotent ==
  (MethodStep("markAsLogged") /\ orders[1].logged) => orders' = orders

\* C19: the logged flag of an order moves from false to true at most once
\* and no operation or event resets it; markAsLogged() of an order that is
\* already logged leaves the order as it is.
C19_LoggedSetOnce == [][LoggedNeverReset /\ MarkAsLoggedIdempotent]_vars

\* the order was marked as logged twice, with another operation after the
\* first marking, and is logged
C19_Witness ==
  /\ Len(orders) = 1 /\ Len(ops) >= 3
  /\ ops[1].name = "markAsLogged"
  /\ ops[2].name # "markAsLogged"
  /\ ops[3].name = "markAsLogged"
  /\ orders[1].logged

\* C20: in every reachable state of a session an order whose logged flag is
\* set is confirmed and has at least one line item.
C20_LoggedIsConfirmedWithItems ==
  \A g \in 1..Len(orders) :
    orders[g].logged => (orders[g].confirmed /\ Len(orders[g].items) > 0)

\* C21: every line item of every order has a quantity of at least 1,
\* whatever quantity the add_item_to_order invocations carry (none, more
\* than one, negative) and after any sequence of merges.
C21_QuantityAtLeastOne ==
  \A g \in 1..Len(orders) :
    \A i \in 1..Len(orders[g].items) : orders[g].items[i].quantity >= 1

\* what the order operation of invocation inv comes to on the order of
\* service k
operationOf(k, inv) ==
  toolOperation(orders[services[k].orderManager], inv.name, inv.arguments)

\* this step handles a tool invocation whose order operation throws
DomainErrorStep(k, inv) ==
  /\ toolCalls' = toolCalls + 1
  /\ ~operationOf(k, inv).ok
  /\ AIToolCall(k, inv)

\* the errors the order operations throw
DomainErrors ==
  {"Menu item not found", "Price not found", "Invalid delivery method",
   "Address cannot be empty", "Customer name cannot be empty",
   "Invalid payment method", "TypeError",
   "Cannot confirm order with no items",
   "Cannot confirm order without customer name"}

\* C22: a tool invocation whose order operation throws does not end the
\* session: the step answers with a function_call_output that carries the
\* error message, followed by a response.create, and leaves the order, the
\* AI connection, the telephony socket and the state of the call as they
\* were, so that the frames and invocations that follow are handled as
\* before.
C22_DomainErrorKeepsSession ==
  [][ \A k \in 1..Len(services), inv \in CallTools :
        DomainErrorStep(k, inv) =>
          /\ operationOf(k, inv).error \in DomainErrors
          /\ aiSent' = << functionCallOutput(toolCalls + 1, FALSE,
                                             operationOf(k, inv).error),
                          ResponseCreate >>
          /\ UNCHANGED <<orders, services, openaiService, orderManager, ws,
                         stream, streamSid, callSid, calls>> ]_vars

\* the one tool invocation of the call was refused (the order is as it was
\* created) and the frame that followed it has been sent to the AI channel
C22_Witness ==
  /\ toolCalls = 1 /\ Len(orders) = 1
  /\ orders[1] = createEmptyOrder(streamSid, callSid, orders[1].from)
  /\ framesIn >= 1
  /\ Len(aiSent) = 1 /\ aiSent[1].type = "input_audio_buffer.append"

\* the deliver calls this step starts
StartedCalls == (Len(calls) + 1)..Len(calls')

\* the end of call runs to its end without waiting for a sink: the AI
\* connection the session holds is closed, both references are released,
\* and of the deliver calls it started none has had a request settle
TeardownCompletes ==
  EndOfCallStep =>
    /\ stream' = "ended"
    /\ openaiService' = 0 /\ orderManager' = 0
    /\ openaiService # 0 =>
         /\ services'[openaiService].client = NULL
         /\ ~services'[openaiService].listeners
         /\ ~services'[openaiService].ready
         /\ services'[openaiService].conn \notin {"OPEN", "CONNECTING"}
    /\ \A i \in StartedCalls :
         /\ calls'[i].last = NoOutcome
         /\ calls'[i].pc = "request" \/ calls'[i].result.skipped

\* this step is the settling of a request of deliver call i, or the end of
\* its backoff
DeliveryStep(i) ==
  /\ ~EndOfCallStep
  /\ i <= Len(calls') /\ calls'[i] # calls[i]

\* whatever a sink's request comes to, the session stays as the end of call
\* left it; a call that failed, or whose completion handler threw, leaves
\* the orders as they were
OutcomeStaysInDelivery ==
  \A i \in 1..Len(calls) :
    DeliveryStep(i) =>
      /\ UNCHANGED <<ws, stream, streamSid, callSid, orderManager, services,
                     openaiService, endCalls, handoffs>>
      /\ aiSent' = << >> /\ twilioSent' = << >>
      /\ (~calls'[i].result.success \/ calls'[i].cb = "threw") => orders' = orders

\* C23: the end of call does not wait for delivery and completes (the AI
\* connection closed, the references to the AI service and the order
\* manager released) whatever the deliveries come to: success, failure
\* after the last retry, a request that times out or breaks, a completion
\* handler that throws; no outcome reaches the session.
C23_TeardownIndependentOfDelivery ==
  [][TeardownCompletes /\ OutcomeStaysInDelivery]_vars

\* the call has ended and is torn down; its webhook delivery failed after
\* the last retry on a broken request and the completion handler of its
\* spreadsheet delivery threw
C23_Witness ==
  /\ stream = "ended" /\ openaiService = 0 /\ orderManager = 0
  /\ Len(services) = 1 /\ services[1].client = NULL
  /\ \E i, j \in 1..Len(calls) :
       /\ calls[i].sink = "webhook" /\ calls[i].pc = "done"
       /\ ~calls[i].result.success /\ calls[i].last.kind = "error"
       /\ calls[i].sends = maxRetries
       /\ calls[j].sink = "calllog" /\ calls[j].cb = "threw"

\* an end of call that hands a snapshot over calls every configured sink,
\* whatever became of the calls made before
EachSinkInvoked ==
  (EndOfCallStep /\ handoffs' # handoffs) =>
    \A sink \in ConfiguredSinks :
      \E i \in StartedCalls :
        /\ calls'[i].sink = sink
        /\ calls'[i].orderData = getOrderForLogging(orders[orderManager])

\* what a request of call i comes to changes no other call and takes back
\* no result; a request that is accepted makes its own call a success
SinksDoNotInterfere ==
  \A i \in 1..Len(calls) :
    DeliveryStep(i) =>
      /\ \A j \in 1..Len(calls) : j # i => calls'[j] = calls[j]
      /\ calls[i].pc # "done"
      /\ sendRequestSucceeds(calls'[i].last) /\ calls[i].pc = "request"
           => calls'[i].pc = "done" /\ calls'[i].result.success
      /\ calls[i].sink # "webhook" => loggedOrders' = loggedOrders

\* C24: at the end of a call each configured sink (the webhook logger and
\* the spreadsheet sink) is called independently of the other: a failure,
\* a rejected request or an exception of one sink neither keeps the other
\* from being called nor takes back or holds up its success.
C24_SinksIndependent ==
  [][EachSinkInvoked /\ SinksDoNotInterfere]_vars

\* two calls on one connection: for the first the webhook failed after the
\* last retry and the spreadsheet sink succeeded, for the second the
\* spreadsheet sink failed and the webhook succeeded
C24_Witness ==
  /\ sheetsLogger /\ Len(calls) = 4
  /\ calls[1].sink = "webhook" /\ calls[1].pc = "done" /\ ~calls[1].result.success
  /\ calls[2].sink = "calllog" /\ calls[2].pc = "done" /\ calls[2].result.success
  /\ calls[3].sink = "webhook" /\ calls[3].pc = "done" /\ calls[3].result.success
  /\ calls[4].sink = "calllog" /\ calls[4].pc = "done" /\ ~calls[4].result.success

(***************************************************************************)
(* Properties of two calls in progress, checked under SpecTwoCalls         *)
(***************************************************************************)
\* order manager g was made by the other connection
PeerOrder(g) == peer.streamSid # NULL /\ orders[g].streamSid = peer.streamSid

\* the event handled in this step left everything of the other connection
\* as it was: its closure variables (the state of its call among them), its
\* order managers, its AI services and its deliver calls
PeerUntouched ==
  /\ peer' = peer
  /\ \A g \in 1..Len(orders) : PeerOrder(g) => orders'[g] = orders[g]
  /\ \A k \in 1..Len(services) :
       PeerOrder(services[k].orderManager) => services'[k] = services[k]
  /\ \A i \in 1..Len(calls) :
       (peer.streamSid # NULL /\ calls[i].orderData.streamSid = peer.streamSid)
         => calls'[i] = calls[i]

\* C25: with two calls in progress at the same time, in every interleaving
\* of their events, an event of one connection (start, audio frame, tool
\* invocation, stop, close, the settling of its deliveries) leaves the
\* other connection's order, AI connection and state of the call
\* unchanged.
C25_SessionsIndependent == [][OtherConnection \/ PeerUntouched]_vars

\* both calls are in progress, each with its own order: one has taken one
\* dozen, the other two
C25_Witness ==
  /\ stream = "started" /\ peer.stream = "started"
  /\ orderManager # 0 /\ peer.orderManager # 0
  /\ orderManager # peer.orderManager
  /\ Len(orders[orderManager].items) = 1
  /\ orders[orderManager].items[1].quantity = 1
  /\ Len(orders[peer.orderManager].items) = 1
  /\ orders[peer.orderManager].items[1].quantity = 2
  /\ isReady(services[openaiService]) /\ isReady(services[peer.openaiService])

(***************************************************************************)
(* Order of events within a call, checked under SpecConversation           *)
(***************************************************************************)
\* the messages of a type among those a step sent on the AI socket
SentOfType(sent, type) == { n \in 1..Len(sent) : sent[n].type = type }

\* audio goes to the AI channel only in the step that receives a frame, as
\* one message that carries that frame's payload: nothing is kept back,
\* sent twice or joined with another frame
FrameSentOnArrival ==
  SentOfType(aiSent', "input_audio_buffer.append") # {} =>
    \E payload \in FramePayloads \ {NULL} :
      /\ TwilioMedia(payload)
      /\ aiSent' = << AudioAppend(payload) >>
      /\ audioChunksFromTwilio' = audioChunksFromTwilio + 1

\* a result goes to the AI channel only in the step that receives an
\* invocation: one function_call_output, with the number of that
\* invocation in arrival order, before anything else the step sends
ResultSentOnArrival ==
  /\ SentOfType(aiSent', "conversation.item.create") # {} =>
       /\ toolCalls' = toolCalls + 1
       /\ SentOfType(aiSent', "conversation.item.create") = {1}
       /\ aiSent'[1].call_id = toolCalls'
  /\ toolCalls' # toolCalls =>
       /\ toolCalls' = toolCalls + 1
       /\ SentOfType(aiSent', "conversation.item.create") = {1}

\* as many frames were sent on as the forwarding counter says, and no more
\* than were received
SentNoMoreThanReceived ==
  /\ audioChunksFromTwilio <= framesIn
  /\ \A k \in 1..Len(services) : services[k].audioChunksSent <= audioChunksFromTwilio

\* C26: within a call the events are handled in the order they arrive,
\* none twice and none joined with another: the frames sent to the AI
\* channel are, in order, frames received from the telephony leg, each
\* sent as it came in the step that received it, and the tool invocations
\* are handled one at a time, each result sent before the next invocation
\* is taken.
C26_ArrivalOrderKept ==
  /\ [] SentNoMoreThanReceived
  /\ [][FrameSentOnArrival /\ ResultSentOnArrival]_vars

\* the second of two different frames has just been sent on, after the
\* first, and after a tool invocation was answered
C26_Witness ==
  /\ framesIn = 2 /\ audioChunksFromTwilio = 2 /\ toolCalls >= 1
  /\ aiSent = << AudioAppend("CCCC") >>

(***************************************************************************)
(* The AI connection, checked under SpecAudio                              *)
(***************************************************************************)
\* a connection has had its configuration once it is open, never before,
\* never twice, and has forwarded audio only with it
ConfiguredOnce ==
  \A k \in 1..Len(services) :
    /\ services[k].sessionUpdates <= 1
    /\ services[k].conn = "OPEN" => services[k].sessionUpdates = 1
    /\ services[k].conn = "CONNECTING" => services[k].sessionUpdates = 0
    /\ services[k].audioChunksSent > 0 => services[k].sessionUpdates = 1

\* the configuration is sent in the step in which a socket opens, first
\* of what the step sends
ConfiguredAtConnect ==
  sessionUpdatesIn(aiSent') > 0 =>
    /\ aiSent'[1].type = "session.update"
    /\ sessionUpdatesIn(aiSent') = 1
    /\ \E k \in 1..Len(services) :
         /\ services[k].conn = "CONNECTING" /\ services'[k].conn = "OPEN"
         /\ services[k].sessionUpdates = 0

\* a frame goes to a connection that has had its configuration
AudioAfterConfiguration ==
  SentOfType(aiSent', "input_audio_buffer.append") # {} =>
    /\ openaiService # 0
    /\ services[openaiService].sessionUpdates = 1

\* C27: on each AI connection the session configuration is sent exactly
\* once, when the connection opens, and no audio frame is sent to the AI
\* channel before it.
C27_ConfiguredOnceBeforeAudio ==
  /\ [] ConfiguredOnce
  /\ [][ConfiguredAtConnect /\ AudioAfterConfiguration]_vars

\* a frame that came before the connection was configured was dropped, and
\* a frame that came after it was sent on
C27_Witness ==
  /\ Len(services) = 1 /\ framesIn = 2
  /\ services[1].sessionUpdates = 1
  /\ services[1].audioChunksSent = 1
  /\ Len(aiSent) = 1 /\ aiSent[1].type = "input_audio_buffer.append"

(***************************************************************************)
(* The order after the end of the call, checked under Spec                 *)
(***************************************************************************)
\* the order managers whose snapshot was handed to a sink
HandedOver ==
  { handoffs["webhook"][n].om : n \in 1..Len(handoffs["webhook"]) }
    \cup { handoffs["calllog"][n].om : n \in 1..Len(handoffs["calllog"]) }

\* no step changes what an order that was handed over holds (its logged
\* flag is the sinks' to set)
HandedOrderFrozen ==
  \A g \in HandedOver :
    [orders'[g] EXCEPT !.logged = orders[g].logged] = orders[g]

\* what a sink was given, and what its deliver call holds, is the snapshot
\* of the order as it is now
SnapshotIsOrder ==
  \A sink \in ConfiguredSinks :
    /\ \A n \in 1..Len(handoffs[sink]) :
         handoffs[sink][n].orderData =
           getOrderForLogging(orders[handoffs[sink][n].om])
    /\ \A i \in EndOfCallCalls(sink) :
         calls[i].orderData = getOrderForLogging(orders[OrderOfCall(i)])

\* C28: from the step that hands the snapshot of an order to the sinks, the
\* order is frozen: no tool invocation changes it, and the snapshot the
\* sinks hold stays equal to the order as it was handed over, whatever
\* happens later on the connection.
C28_HandedOrderFrozen ==
  /\ [] SnapshotIsOrder
  /\ [][HandedOrderFrozen]_vars

\* the order of the first call was handed over; after a second start the
\* AI added an item to the new order, and the first order is still what
\* the sinks were given
C28_Witness ==
  /\ Len(orders) = 2 /\ stream = "started"
  /\ Len(handoffs["webhook"]) = 1 /\ handoffs["webhook"][1].om = 1
  /\ Len(orders[2].items) > 0
  /\ Len(aiSent) = 2 /\ aiSent[1].type = "conversation.item.create"
  /\ handoffs["webhook"][1].orderData = getOrderForLogging(orders[1])

(***************************************************************************)
(* A connection to the AI channel that fails to open, checked under        *)
(* SpecConversation                                                        *)
(***************************************************************************)
\* in this step the connection attempt of service k fails
OpenFails(k) ==
  services[k].conn = "CONNECTING" /\ services'[k].conn = "CLOSING"

\* service k never opened and is no longer connecting
NeverOpened(k) ==
  services[k].sessionUpdates = 0 /\ services[k].conn \in {"CLOSING", "CLOSED"}

\* the failure changes nothing but the service: nothing is sent, the call
\* goes on
FailureOnlyLogged ==
  \A k \in 1..Len(services) :
    OpenFails(k) =>
      /\ UNCHANGED <<ws, stream, streamSid, callSid, orders, orderManager,
                     openaiService, calls, handoffs, audioBuffer>>
      /\ aiSent' = << >> /\ twilioSent' = << >>

\* a service that never opened is not ready, has sent no audio, and its
\* order is empty and was handed to no sink
NeverOpenedIsIdle ==
  \A k \in 1..Len(services) :
    NeverOpened(k) =>
      /\ ~services[k].ready /\ ~isReady(services[k])
      /\ services[k].audioChunksSent = 0
      /\ orders[services[k].orderManager].items = << >>
      /\ ~orders[services[k].orderManager].confirmed
      /\ services[k].orderManager \notin HandedOver

\* it stays so; a frame that arrives while the call holds such a service
\* is dropped and kept nowhere; the end of the call runs and starts no
\* delivery
NeverOpenedStep ==
  /\ \A k \in 1..Len(services) :
       NeverOpened(k) => services'[k].sessionUpdates = 0
                         /\ services'[k].conn \in {"CLOSING", "CLOSED"}
  /\ (openaiService # 0 /\ NeverOpened(openaiService)) =>
       /\ framesIn' = framesIn + 1 =>
            /\ aiSent' = << >>
            /\ UNCHANGED <<services, audioBuffer, audioChunksFromTwilio>>
       /\ EndOfCallStep =>
            /\ stream' = "ended"
            /\ openaiService' = 0 /\ orderManager' = 0
            /\ services'[openaiService].client = NULL
            /\ UNCHANGED <<calls, handoffs>>

\* C29: when the connection to the AI channel fails to open, the failure is
\* only logged: the connection never becomes ready, every frame that
\* arrives is dropped and not queued, the order stays empty, and at the
\* end of the call (stop or close) the teardown runs and starts no
\* delivery.
C29_FailedOpenIsHarmless ==
  /\ [] NeverOpenedIsIdle
  /\ [][FailureOnlyLogged /\ NeverOpenedStep]_vars

\* the connection attempt of the call failed, two frames arrived and were
\* dropped, and the call has ended without a delivery
C29_Witness ==
  /\ Len(services) = 1 /\ services[1].conn = "CLOSING"
  /\ services[1].sessionUpdates = 0
  /\ framesIn = 2 /\ audioChunksFromTwilio = 0
  /\ stream = "ended" /\ openaiService = 0 /\ orderManager = 0
  /\ calls = << >>

\* the AI connections of the telephony connection whose socket is
\* connecting or open
LiveConnections ==
  { k \in 1..Len(services) : services[k].conn \in {"CONNECTING", "OPEN"} }

\* C30: a telephony connection has at most one AI connection at any time,
\* whatever events the telephony leg sends (a repeated start among them),
\* and once its call has ended every AI connection opened for it is
\* closed.
C30_OneConnectionClosedAtEnd ==
  /\ Cardinality(LiveConnections) <= 1
  /\ stream = "ended" => LiveConnections = {}


(***************************************************************************)
(* Properties of the batching handler, checked under SpecLegacy            *)
(***************************************************************************)
\* the deliver calls the batching handler's stop and close handlers made
LegacyCalls == { i \in 1..Len(calls) : calls[i].owner = "legacy" }

\* the order manager whose snapshot the batching handler's call i was given
LegacyOrderOfCall(i) ==
  handoffs["webhook"][Cardinality({ j \in LegacyCalls : j <= i })].om

\* the deliver calls of order g that put a request on the wire
SendingCalls(g) ==
  { i \in LegacyCalls : LegacyOrderOfCall(i) = g /\ calls[i].sends > 0 }

\* C31: in the batching handler, stop followed by close of one call leads to
\* at most one deliver call that sends the call's order to the webhook, also
\* when close arrives while the delivery started by stop is in flight.
C31_StopThenCloseSendsOnce ==
  \A g \in 1..Len(orders) : Cardinality(SendingCalls(g)) <= 1


(***************************************************************************)
(* The menu on its own: the spreadsheet menu set at startup, then          *)
(* findMenuItem and getPrice called with any name and size                 *)
(* (src/unnamed/part_002)                                                  *)
(***************************************************************************)
\* what fetchMenuFromSheet hands to setDynamicMenu: a menu of four rows (one
\* of them free), a menu of one row, and a sheet without usable rows
SheetInputs ==
  { [menuItems |-> << [name |-> "Maple Bar", price |-> 329],
                      [name |-> "Glazed Donut Box", price |-> 1999],
                      [name |-> "Coffee", price |-> 275],
                      [name |-> "Tap Water", price |-> 0] >>,
     menuText |-> "MENU"],
    [menuItems |-> << [name |-> "Coffee", price |-> 275] >>,
     menuText |-> "MENU"],
    [menuItems |-> << >>, menuText |-> ""] }

\* the names findMenuItem is called with
MenuQueries ==
  { "glazed donut", "GLAZED DONUT", " glazed donut ", "chocolate frosted",
    "choc", "donut", "donuts", "holes donut", "coffee", "maple bar",
    "tap water", "pizza", "constructor", "   ", "", NULL }

\* the sizes getPrice is called with (NULL: no size)
MenuSizes == {"single", "half-dozen", "dozen", "regular", "small", "large", NULL}

\* nothing of a call, of the dispatcher or of an order changes
menuFrame ==
  UNCHANGED <<loggerVars, sessionVars, observationVars, peer>>

\* setDynamicMenu(sheetData), called once at startup (server.js)
SetDynamicMenu(sheetData) ==
  /\ dynamicMenuItems = << >>
  /\ orders = << >>
  /\ dynamicMenuItems' = IF sheetData.menuText # "" THEN sheetData.menuItems
                         ELSE dynamicMenuItems
  /\ UNCHANGED lookup
  /\ menuFrame

\* findMenuItem(itemName) called from outside
FindMenuItem(itemName) ==
  /\ lookup' = [arguments |-> [name |-> itemName, size |-> NULL],
                name |-> "findMenuItem", price |-> priceNull,
                result |-> findMenuItem(itemName)]
  /\ UNCHANGED dynamicMenuItems
  /\ menuFrame

\* getPrice(itemName, size) called from outside
GetPrice(itemName, size) ==
  /\ lookup' = [arguments |-> [name |-> itemName, size |-> size],
                name |-> "getPrice", price |-> getPrice(itemName, size),
                result |-> findMenuItem(itemName)]
  /\ UNCHANGED dynamicMenuItems
  /\ menuFrame

NextMenu ==
  \/ \E sheetData \in SheetInputs : SetDynamicMenu(sheetData)
  \/ \E itemName \in MenuQueries : FindMenuItem(itemName)
  \/ \E itemName \in MenuQueries, size \in MenuSizes : GetPrice(itemName, size)

SpecMenu == Init /\ [][NextMenu]_vars

(***************************************************************************)
(* Properties of the menu, checked under SpecMenu                          *)
(***************************************************************************)
\* the names of the hardcoded menu whose words all match a word of the query
FuzzyNames(query) ==
  { i \in 1..Len(fallbackMenu) :
      \A n \in 1..Len(splitWords(lowerTrim(query))) :
        \E m \in 1..Len(fallbackMenu[i].words) :
          \/ includes(fallbackMenu[i].words[m], splitWords(lowerTrim(query))[n])
          \/ includes(splitWords(lowerTrim(query))[n], fallbackMenu[i].words[m]) }

\* what resolve(query) is to return on the hardcoded menu: the item named
\* as the lowercased, trimmed query, else the first item in menu order that
\* matches word by word, else nothing (NULL)
Resolved(query) ==
  IF \E i \in 1..Len(fallbackMenu) : fallbackMenu[i].name = lowerTrim(query)
  THEN lowerTrim(query)
  ELSE IF FuzzyNames(query) # {}
  THEN fallbackMenu[CHOOSE i \in FuzzyNames(query) :
                      \A j \in FuzzyNames(query) : i <= j].name
  ELSE NULL

\* C32: with the hardcoded menu as catalog, findMenuItem of a query returns
\* the item whose name is the lowercased, trimmed query if there is one,
\* else the first item in menu order each of whose query words is part of,
\* or contains, a word of the item's name, else null ('chocolate frosted'
\* gives 'chocolate frosted donut', 'pizza' gives null).
C32_ResolveExactThenFirstFuzzy ==
  ( /\ dynamicMenuItems = << >>
    /\ lookup.name = "findMenuItem"
    /\ lookup.arguments.name \notin {NULL, ""} )
  => /\ lookup.result.name = Resolved(lookup.arguments.name)
     /\ lookup.arguments.name = "chocolate frosted"
          => lookup.result.name = "chocolate frosted donut"
     /\ lookup.arguments.name = "pizza" => lookup.result.name = NULL


\* the rows of the loaded spreadsheet menu that match the query: by name
\* (whatever the case), and word by word
DynamicExact(query) ==
  { i \in 1..Len(dynamicMenuItems) :
      toLowerCase(dynamicMenuItems[i].name) = lowerTrim(query) }
DynamicFuzzy(query) ==
  { i \in 1..Len(dynamicMenuItems) :
      fuzzyMatch(splitWords(lowerTrim(query)),
                 splitWords(toLowerCase(dynamicMenuItems[i].name))) }

\* the row the spreadsheet menu yields for the query, 0 if it yields none
DynamicMatch(query) ==
  IF DynamicExact(query) # {} THEN firstIndex(DynamicExact(query))
  ELSE firstIndex(DynamicFuzzy(query))

\* this step is a lookup of `query` (by findMenuItem, or by the findMenuItem
\* call of getPrice)
LookupStep(query) ==
  /\ lookup' # lookup
  /\ lookup'.arguments.name = query

\* a lookup returns the spreadsheet menu's match whenever there is one, and
\* what the hardcoded menu alone gives when there is none
DynamicFirst ==
  \A query \in MenuQueries \ {NULL, ""} :
    LookupStep(query) =>
      IF DynamicMatch(query) # 0
      THEN /\ lookup'.result.kind = "dynamic"
           /\ lookup'.result.name = dynamicMenuItems[DynamicMatch(query)].name
           /\ lookup'.result.data.priceMap.regular =
                dynamicMenuItems[DynamicMatch(query)].price
      ELSE /\ lookup'.result.kind # "dynamic"
           /\ lookup'.result = findMenuItemIn(<< >>, query)

\* C33: with a dynamic menu loaded, findMenuItem takes the dynamic menu's
\* match, exact or fuzzy, before anything of the hardcoded menu (a dynamic
\* fuzzy match wins over a hardcoded exact name) and consults the hardcoded
\* menu only when the dynamic menu has no match; with no dynamic menu loaded
\* only the hardcoded menu is used.
C33_DynamicMenuFirst == [][DynamicFirst]_vars

\* with the spreadsheet menu loaded, 'glazed donut' (a name of the hardcoded
\* menu) was resolved to the row it matches word by word
C33_Witness ==
  /\ Len(dynamicMenuItems) = 4
  /\ lookup.name = "findMenuItem"
  /\ lookup.arguments.name = "glazed donut"
  /\ lookup.result.name = "Glazed Donut Box"
  /\ lookup.result.kind = "dynamic"


\* the item offers the size: its price table has a price under that label
Offers(item, size) == sizeKey(size) \in DOMAIN item.data.priceMap

\* C34: getPrice never ends in an error; for an item that resolves it
\* returns the price of the requested size when the item offers that size
\* and the price of the item's first declared size otherwise; it returns
\* null only when the item does not resolve or has no price.
C34_PriceOfSizeOrFirstSize ==
  lookup.name = "getPrice" =>
    /\ lookup.price.error = NULL
    /\ IF lookup.result.kind = "null" \/ lookup.result.data.sizes = << >>
       THEN ~lookup.price.ok
       ELSE /\ lookup.price.ok
            /\ lookup.price.price =
                 IF Offers(lookup.result, lookup.arguments.size)
                 THEN lookup.result.data.priceMap[sizeKey(lookup.arguments.size)]
                 ELSE lookup.result.data.priceMap[sizeKey(lookup.result.data.sizes[1])]


(***************************************************************************)
(* Properties of an order to be delivered, checked under SpecCheckout      *)
(***************************************************************************)
\* the order, or the snapshot of one, is for delivery and has no address
AddressMissing(o) == o.deliveryMethod = "delivery" /\ o.address = NULL

\* C35: an order whose delivery method is 'delivery' and whose address is
\* not set is neither confirmed nor handed to a sink.
C35_DeliveryNeedsAddress ==
  /\ \A g \in 1..Len(orders) : AddressMissing(orders[g]) => ~orders[g].confirmed
  /\ \A sink \in {"webhook", "calllog"} :
       \A n \in 1..Len(handoffs[sink]) :
          ~AddressMissing(handoffs[sink][n].orderData)


(***************************************************************************)
(* Properties of the tool invocations, checked under SpecTools             *)
(***************************************************************************)
\* the fields of the order that the operation of a tool may change
ToolFields(functionName) ==
  CASE functionName = "add_item_to_order"   -> {"items", "subtotal", "tax", "total"}
    [] functionName = "set_delivery_method" -> {"deliveryMethod"}
    [] functionName = "set_address"         -> {"address"}
    [] functionName = "set_customer_name"   -> {"customerName"}
    [] functionName = "set_customer_phone"  -> {"customerPhone"}
    [] functionName = "set_payment_method"  -> {"paymentMethod"}
    [] functionName = "confirm_order"       -> {"confirmed"}

\* this step handles invocation inv of a known tool, and its operation
\* returns
SuccessfulToolStep(k, inv) ==
  /\ toolCalls' = toolCalls + 1
  /\ inv.parsable /\ inv.name \in KnownTools
  /\ operationOf(k, inv).ok
  /\ AIToolCall(k, inv)

\* a successful invocation changes, of all orders, only the fields of its
\* tool in the order of its service
OnlyToolFieldsChange ==
  \A k \in 1..Len(services), inv \in ToolInputs :
    SuccessfulToolStep(k, inv) =>
      \A g \in 1..Len(orders) :
        \A f \in DOMAIN orders[g] :
          (g # services[k].orderManager \/ f \notin ToolFields(inv.name))
            => orders'[g][f] = orders[g][f]

\* no invocation, whatever it comes to, changes the logged flag or an
\* identifier of the call or of the stream
IdentifiersAndLoggedKept ==
  toolCalls' = toolCalls + 1 =>
    /\ UNCHANGED <<streamSid, callSid>>
    /\ \A g \in 1..Len(orders) :
         /\ orders'[g].logged = orders[g].logged
         /\ orders'[g].callSid = orders[g].callSid
         /\ orders'[g].streamSid = orders[g].streamSid

\* C36: a successful tool invocation changes only the order fields of its
\* operation (set_delivery_method: deliveryMethod; set_address: address;
\* set_customer_name: customerName; set_customer_phone: customerPhone;
\* set_payment_method: paymentMethod; confirm_order: confirmed;
\* add_item_to_order: the items and the totals), and no tool invocation
\* changes logged or the identifiers of the call and of the stream.
C36_ToolChangesOnlyItsFields ==
  [][OnlyToolFieldsChange /\ IdentifiersAndLoggedKept]_vars

\* an order with an item and a name has just been given its address by a
\* successful invocation, the third of the call
C36_Witness ==
  /\ toolCalls = 3
  /\ Len(aiSent) = 2 /\ aiSent[1].output.success
  /\ \E g \in 1..Len(orders) :
       /\ Len(orders[g].items) = 1
       /\ orders[g].customerName = "Jane Smith"
       /\ orders[g].address = "1 Main St"
       /\ orders[g].deliveryMethod = NULL


(***************************************************************************)
(* Termination of the webhook dispatcher, checked under SpecLoggerFair     *)
(***************************************************************************)
\* call i has returned one of the three results of logOrder: delivered (with
\* the attempt that succeeded), already delivered, or failed (with the
\* number of attempts made and the last error)
OutcomeValue(i) ==
  /\ calls[i].pc = "done"
  /\ \/ /\ calls[i].result.success /\ ~calls[i].result.skipped
        /\ calls[i].result.attempt \in 1..maxRetries
     \/ calls[i].result.success /\ calls[i].result.skipped
     \/ /\ ~calls[i].result.success
        /\ calls[i].result.attempts = maxRetries
        /\ calls[i].result.error # NULL

\* a call is waiting for its request, waiting for its backoff timer, or has
\* returned a result
NeverRejects ==
  \A i \in WebhookCalls :
    /\ calls[i].pc \in {"request", "sleep", "done"}
    /\ calls[i].pc = "done" => OutcomeValue(i)

\* C37: every logOrder call ends, and ends by returning a result (delivered,
\* already delivered, or failed with the number of attempts), whatever the
\* requests come to (2xx, error status, timeout, transport error); it
\* never rejects.
C37_DeliverCallResolves ==
  /\ []NeverRejects
  /\ \A i \in 1..MaxCalls :
       (i <= Len(calls)) ~> (i <= Len(calls) /\ OutcomeValue(i))

\* one call has failed after three attempts, the last of them a transport
\* error, and another one has delivered at its second attempt
C37_Witness ==
  \E i, j \in WebhookCalls :
    /\ OutcomeValue(i) /\ ~calls[i].result.success
    /\ calls[i].sends = maxRetries /\ calls[i].last.kind = "error"
    /\ OutcomeValue(j) /\ calls[j].result.success /\ calls[j].result.attempt = 2


(***************************************************************************)
(* The order aggregate called with arguments it refuses                    *)
(* (src/src/services/order-manager.js)                                     *)
(***************************************************************************)
\* the arguments of each method: some it accepts, some it refuses (an item
\* the menu has not, an item whose price cannot be read, a method that is
\* neither pickup nor delivery, blank and missing texts, a payment method
\* that is not known, no payment method)
RefusalArgs ==
  [ addItem |->
      { [NoArgs EXCEPT !.name = "glazed donut", !.quantity = 1, !.size = "dozen"],
        [NoArgs EXCEPT !.name = "pizza", !.quantity = 1],
        [NoArgs EXCEPT !.name = "constructor", !.quantity = 1] },
    setAddress |->
      { [NoArgs EXCEPT !.address = " 1 Main St "],
        [NoArgs EXCEPT !.address = "   "], NoArgs },
    setCustomerName |->
      { [NoArgs EXCEPT !.name = " Jane Smith "],
        [NoArgs EXCEPT !.name = "   "], NoArgs },
    setDeliveryMethod |->
      { [NoArgs EXCEPT !.method = "delivery"],
        [NoArgs EXCEPT !.method = "drone"] },
    setPaymentMethod |->
      { [NoArgs EXCEPT !.method = "Credit Card"],
        [NoArgs EXCEPT !.method = "bitcoin"], NoArgs } ]

\* the methods of one order manager called in any order, with arguments
\* they accept and arguments they refuse
NextRefusals ==
  \/ \E start \in StartInputs : OrderNew(start)
  \/ \E args \in RefusalArgs.addItem : OrderAddItem(args)
  \/ \E args \in RefusalArgs.setDeliveryMethod : OrderSetDeliveryMethod(args)
  \/ \E args \in RefusalArgs.setAddress : OrderSetAddress(args)
  \/ \E args \in RefusalArgs.setCustomerName : OrderSetCustomerName(args)
  \/ OrderSetCustomerPhone([NoArgs EXCEPT !.phone = "+15559870000"])
  \/ \E args \in RefusalArgs.setPaymentMethod : OrderSetPaymentMethod(args)
  \/ OrderConfirm
  \/ OrderMarkAsLogged

SpecRefusals == Init /\ [][NextRefusals]_vars

\* the method call of this step is one the order manager has to refuse
ToBeRefused ==
  LET op == ops'[Len(ops')]
  IN  \/ op.name = "addItem" /\ op.arguments.name \in {"pizza", "constructor"}
      \/ op.name = "setDeliveryMethod" /\ op.arguments.method \notin {"pickup", "delivery"}
      \/ op.name = "setAddress" /\ op.arguments.address \in {NULL, "", "   "}
      \/ op.name = "setCustomerName" /\ op.arguments.name \in {NULL, "", "   "}
      \/ op.name = "setPaymentMethod" /\ op.arguments.method \in {NULL, "bitcoin"}
      \/ op.name = "confirm" /\ Len(orders[1].items) = 0
      \/ op.name = "confirm" /\ ~HasCustomerName(orders[1])

\* C38: an order operation that fails (addItem of an item that does not
\* resolve or has no price, setDeliveryMethod of an invalid method,
\* setAddress or setCustomerName of a blank, setPaymentMethod of an invalid
\* or missing method, confirm without items or without name) leaves the
\* whole order as it was; each of these calls does fail.
C38_FailedOperationChangesNothing ==
  [][ Len(ops') = Len(ops) + 1 =>
        /\ ToBeRefused => ~ops'[Len(ops')].ok
        /\ ~ops'[Len(ops')].ok => orders' = orders ]_vars

\* an order with an item was refused an invalid delivery method, a missing
\* payment method and an item the menu has not, and is as it was after
\* the first call
C38_Witness ==
  /\ Len(ops) = 4
  /\ ops[1].name = "addItem" /\ ops[1].ok
  /\ ops[2].name = "setDeliveryMethod" /\ ~ops[2].ok
  /\ ops[3].name = "setPaymentMethod" /\ ~ops[3].ok
  /\ ops[4].name = "addItem" /\ ~ops[4].ok
  /\ Len(orders[1].items) = 1 /\ orders[1].total = 2483
  /\ orders[1].deliveryMethod = NULL /\ orders[1].paymentMethod = NULL


\* a confirmed order has a line item and a customer name
ConfirmedHasItemsAndName ==
  \A g \in 1..Len(orders) :
    orders[g].confirmed =>
      (Len(orders[g].items) > 0 /\ HasCustomerName(orders[g]))

\* no step takes the confirmation of an order back
ConfirmedNeverReset ==
  \A g \in 1..Len(orders) : orders[g].confirmed => orders'[g].confirmed

\* C39: in every state reached by any sequence of order operations (the
\* operations of the tools) a confirmed order has at least one line item
\* and a customer name that is not empty, and confirmed, once set, is
\* never reset.
C39_ConfirmedKeepsItemsAndName ==
  []ConfirmedHasItemsAndName /\ [][ConfirmedNeverReset]_vars

\* a confirmed order was asked to take a blank customer name, was refused,
\* and is still confirmed under the name it had
C39_Witness ==
  /\ Len(orders) = 1 /\ Len(ops) = 4
  /\ ops[3].name = "confirm" /\ ops[3].ok
  /\ ops[4].name = "setCustomerName" /\ ~ops[4].ok
  /\ orders[1].confirmed
  /\ orders[1].customerName = "Jane Smith"
  /\ Len(orders[1].items) = 1


(***************************************************************************)
(* The prices of line items: the menu module and addItem together          *)
(* (src/unnamed/part_002, src/src/services/order-manager.js)               *)
(***************************************************************************)
\* the addItem calls: sizes the item offers, a size it does not offer, no
\* size, a second spelling of a name (a merge), an item of the menu sheet,
\* a free item, and a size that names a property every object inherits
PricingArgs ==
  { [NoArgs EXCEPT !.name = "glazed donut", !.quantity = 1, !.size = "dozen"],
    [NoArgs EXCEPT !.name = "GLAZED DONUT", !.quantity = 2, !.size = "dozen"],
    [NoArgs EXCEPT !.name = "glazed donut", !.quantity = 1],
    [NoArgs EXCEPT !.name = "donut holes", !.quantity = 1, !.size = "dozen"],
    [NoArgs EXCEPT !.name = "coffee", !.quantity = 1, !.size = "medium"],
    [NoArgs EXCEPT !.name = "tap water", !.quantity = 1, !.size = "regular"],
    [NoArgs EXCEPT !.name = "glazed donut", !.quantity = 1,
                   !.size = "constructor"] }

\* the menu is set at startup, then an order takes addItem calls
NextPricing ==
  \/ \E sheetData \in SheetInputs : SetDynamicMenu(sheetData)
  \/ \E start \in StartInputs : OrderNew(start)
  \/ \E args \in PricingArgs : OrderAddItem(args)

SpecPricing == Init /\ [][NextPricing]_vars

\* the price the menu has for the item in that size, or in its first
\* declared size when it does not offer that size
CatalogPrice(item, size) ==
  IF Offers(item, size)
  THEN item.data.priceMap[sizeKey(size)]
  ELSE item.data.priceMap[sizeKey(item.data.sizes[1])]

\* an addItem call that creates a line gives it the requested size label
\* and the catalog price of the resolved item for that label
PricedAtCreation ==
  (MethodStep("addItem") /\ Len(orders'[1].items) = Len(orders[1].items) + 1) =>
    LET args == ops'[Len(ops')].arguments
        line == orders'[1].items[Len(orders'[1].items)]
    IN  /\ line.size = sizeOrSingle(args.size)
        /\ line.price = CatalogPrice(findMenuItem(args.name), line.size)

\* no step changes the unit price or the size label of a line
LinesKeepPrice ==
  \A g \in 1..Len(orders) :
    /\ g <= Len(orders')
    /\ \A i \in 1..Len(orders[g].items) :
         /\ i <= Len(orders'[g].items)
         /\ orders'[g].items[i].price = orders[g].items[i].price
         /\ orders'[g].items[i].size = orders[g].items[i].size

\* C40: the unit price of a line item is fixed when the line is created: it
\* is the catalog price of the resolved item for the recorded size when the
\* item offers that size, and the price of the item's first declared size
\* otherwise; the line keeps the requested size label, and no later call,
\* a merge into the line included, changes its unit price.
C40_UnitPriceFixedAtCreation == [][PricedAtCreation /\ LinesKeepPrice]_vars

====
